---- MODULE Spec2Model ----
(***************************************************************************)
(* A model of gerrit-slack: the webhook delivery queue (webhookSubmitter), *)
(* the event-stream session (gerritssh.Client.StreamEvents and the         *)
(* reconnect loop of main) and the project configuration resolution        *)
(* (project.LoadConfig).                                                   *)
(***************************************************************************)
EXTENDS Integers, Sequences, FiniteSets, TLC

\* ------------------------------------------------------------------------
\* Bounds of the model
\* ------------------------------------------------------------------------
\* number of messages the event tasks submit to the delivery queue
MaxMsgs == 3
\* number of well-formed records the remote command emits
MaxEvents == 11
\* length of the longest chain of projects (the project and its ancestors)
MaxDepth == 2
\* number of keys one configuration layer defines at most
MaxDefined == 2
\* number of approvals a comment-added event carries at most
MaxApprovals == 2
\* number of events listenForEvents receives one after the other
MaxDispatch == 2
\* number of goroutines of listenForEvents that run side by side
MaxTasks == 2
\* hours the clock runs
MaxNow == 3

\* ------------------------------------------------------------------------
\* Program constants
\* ------------------------------------------------------------------------
\* sch := make(chan webhookSubmit, 10)
SchCap == 10
\* ech := make(chan gerritssh.Event, 10)
EchCap == 10

StatusOK == 200
StatusNotFound == 404
StatusGone == 410
\* any status of the default branch of the switch
StatusOther == 500
\* http.Post returned an error: there is no status
NetErr == 0

Responses == {NetErr, StatusOK, StatusNotFound, StatusGone, StatusOther}
Transient == {NetErr, StatusOther}
Permanent == {StatusNotFound, StatusGone}

MsgIds == 1..MaxMsgs
\* "" is the webhook URL of a project without notifications
WebhookURLs == {"", "https://hooks/a"}

VARIABLES
    \* ---- delivery queue (webhookSubmitter) ----
    sch,              \* the intake channel, a FIFO of webhookSubmit values
    pendingMessages,  \* the pending list of webhookSubmitter
    subPc,            \* "select": in the select; "sweep": in the range loop
    sweepI,           \* index of the range loop over pendingMessages
    newPend,          \* newPend of the sweep in progress
    healthy,          \* TRUE once the webhook answers 200 to every post
    nextMsg,          \* id of the next message an event task submits
    msgUrl,           \* WebhookURL of each submitted message
    taken,            \* ids of the messages received from sch
    resps,            \* the HTTP outcomes each message has received
    okCount,          \* number of 200 responses of each message (up to 2)
    postAfterFinal,   \* a post was made after a 200, 404 or 410
    published,        \* what the last publish of the message returned
    lastResp,         \* the outcome of the last post of the message, if any
    sweepAttempts,    \* publish calls for each message in the current sweep
    sweepStart,       \* the pending list when the current sweep started
    \* ---- the process ----
    running,          \* FALSE once the process has exited (llog.Fatal)
    \* ---- stream session (main, StreamEvents, listenForEvents) ----
    mainPc,           \* position of main: "dial", "select", "waitRun",
                      \* "waitRead", "returned", "sleep", "exit"
    ctxDone,          \* the context given to StreamEvents is canceled
    sessOpen,         \* the ssh session is open
    cmdPc,            \* goroutine of sess.Run: "idle", "running", "done"
    rdPc,             \* reader goroutine: "idle", "scan", "send", "done"
    rdEv,             \* the event the reader is sending on ech
    runCh,            \* buffer of runCh (capacity 1)
    readCh,           \* buffer of readCh (capacity 1)
    runClosed,        \* runCh is closed
    readClosed,       \* readCh is closed
    err,              \* err of StreamEvents
    ret,              \* what the last StreamEvents call returned
    cmdRes,           \* what the command goroutine sent on runCh
    rdRes,            \* what the reader goroutine sent on readCh
    ech,              \* the events channel
    nextEv,           \* id of the next well-formed record of the stream
    skipped,          \* the reader has skipped a malformed record: 0 no,
                      \* 1 the first record of the stream, 2 a later one
    lastRecv,         \* id of the last event listenForEvents received
    sessions,         \* sessions started so far (up to 2)
    \* ---- project.LoadConfig ----
    lcPc,             \* "idle", "parents", "layers", "done", "failed"
    lcProject,        \* project of the parent walk
    lcProjects,       \* projects: the project, its parent, ...
    lcStep,           \* number of layers loaded so far
    lcCfg,            \* cfg
    lcLayers,         \* the layer fetched for each project so far
    lcCaller,         \* where the goroutine that called LoadConfig stands
    pcfg,             \* what that goroutine's pcfg holds after the call
    \* listenForEvents
    dPc,              \* where the goroutine of the current event stands
    dEv,              \* the event it was started for
    dCfg,             \* its pcfg
    dIgn,             \* what h.Ignore returned to it
    dMsg,             \* what h.Message returned to it
    dFetch,           \* how its call of Changes.ListReviewers went
    dOutcome,         \* how it ended
    dSent,            \* the message it sent on sch, 0 for none
    dCount,           \* the events received so far
    dFailed,          \* the failures the goroutines of earlier events ended on
    sapi,             \* state.sapi is set: the service has a Slack token
    emailToID,        \* state.emailToID
    \* debugEvents
    dbgPc,            \* position of debugEvents: "dial", "select", "waitRun",
                      \* "waitRead", "returned", "sleep", "exit"
    dbgSessOpen,      \* its ssh session is open
    dbgCmdPc,         \* its goroutine of sess.Run: "idle", "running", "done"
    dbgRdPc,          \* its reader goroutine: "idle", "scan", "done"
    dbgRunCh,         \* its runCh
    dbgReadCh,        \* its readCh
    dbgRunClosed,     \* close(runCh) was called
    dbgReadClosed,    \* close(readCh) was called
    dbgErr,           \* err of innerDebug
    dbgRet,           \* what innerDebug returned last
    dbgLines,         \* lines written to the debug log (up to 2)
    dbgSessions,      \* sessions innerDebug has opened (up to 2)
    \* slackState, as the goroutines of listenForEvents use it side by side
    rPc,              \* where each goroutine stands: "idle", "check",
                      \* "fetch", "publish", "stamp", "mention", "send"
    rLocal,           \* emailToID, the local map of its refresh call
    rSeen,            \* the map its MentionUser read from s.emailToID
    rErr,             \* its refreshIfNecessary returned an error
    rPrev,            \* s.emailToID before the last assignment to it
    sRefreshed,       \* s.refreshed, in hours
    now               \* the clock, in hours

dqVars == <<sch, pendingMessages, subPc, sweepI, newPend, healthy, nextMsg,
            msgUrl, taken, resps, okCount, postAfterFinal, published,
                   lastResp,
            sweepAttempts, sweepStart>>

stVars == <<mainPc, ctxDone, sessOpen, cmdPc, rdPc, rdEv, runCh, readCh,
            runClosed, readClosed, err, ret, cmdRes, rdRes, ech, nextEv,
            skipped, lastRecv, sessions>>

cfgVars == <<lcPc, lcProject, lcProjects, lcStep, lcCfg, lcLayers, lcCaller,
             pcfg>>

dsVars == <<dPc, dEv, dCfg, dIgn, dMsg, dFetch, dOutcome, dSent, dCount,
            dFailed, sapi, emailToID>>

dbgVars == <<dbgPc, dbgSessOpen, dbgCmdPc, dbgRdPc, dbgRunCh, dbgReadCh,
             dbgRunClosed, dbgReadClosed, dbgErr, dbgRet, dbgLines,
             dbgSessions>>

rfVars == <<rPc, rLocal, rSeen, rErr, rPrev, sRefreshed, now>>

vars == <<dqVars, running, stVars, cfgVars, dsVars, dbgVars, rfVars>>

\* ------------------------------------------------------------------------
\* webhookSubmitter
\* ------------------------------------------------------------------------
\* type webhookSubmit: the message is identified by id, its content plays
\* no part in delivery (a Message holds strings and booleans only, so
\* json.Marshal cannot fail on it).
WebhookSubmit(id, url) == [id |-> id, url |-> url]

\* variant of publish: the default branch of the switch reports success
publishDefaultOk(s, r) ==
    IF s.url = "" THEN [ok |-> TRUE, posted |-> FALSE]
    ELSE IF r = NetErr THEN [ok |-> FALSE, posted |-> TRUE]
    ELSE [ok |-> TRUE, posted |-> TRUE]

\* variant of publish: 404 and 410 fall into the default branch
publishRetryGone(s, r) ==
    IF s.url = "" THEN [ok |-> TRUE, posted |-> FALSE]
    ELSE IF r = StatusOK THEN [ok |-> TRUE, posted |-> TRUE]
    ELSE [ok |-> FALSE, posted |-> TRUE]

\* variant of publish: no early return on an empty WebhookURL
publishNoEmptyCheck(s, r) ==
    IF r = NetErr THEN [ok |-> FALSE, posted |-> TRUE]
    ELSE IF r \in {StatusOK, StatusNotFound, StatusGone}
         THEN [ok |-> TRUE, posted |-> TRUE]
         ELSE [ok |-> FALSE, posted |-> TRUE]

\* publish: ok is its return value (TRUE when the message needs no further
\* attempt), posted tells whether http.Post was called.
\* r is the outcome of http.Post, used only when a post is made.
publish(s, r) ==
    IF s.url = "" THEN [ok |-> TRUE, posted |-> FALSE]
    ELSE IF r = NetErr THEN [ok |-> FALSE, posted |-> TRUE]
    ELSE IF r = StatusOK THEN [ok |-> TRUE, posted |-> TRUE]
    ELSE IF r = StatusNotFound THEN [ok |-> TRUE, posted |-> TRUE]
    ELSE IF r = StatusGone THEN [ok |-> TRUE, posted |-> TRUE]
    ELSE [ok |-> FALSE, posted |-> TRUE]

\* variant of KeepPending: a failed message is put in front of the list
KeepPendingFront(list, s, ok) == IF ~ok THEN <<s>> \o list ELSE list

\* variant of KeepPending: the test of publish is inverted
KeepPendingInverted(list, s, ok) == IF ok THEN Append(list, s) ELSE list

\* variant of KeepPending: a failed message is not kept
KeepPendingNever(list, s, ok) == list

\* if !publish(s) { newPend = append(newPend, s) }
KeepPending(list, s, ok) == IF ~ok THEN Append(list, s) ELSE list

\* the outcomes the webhook can give to a post
RespFor(s) == IF healthy THEN {StatusOK} ELSE Responses

Min(a, b) == IF a < b THEN a ELSE b

\* bookkeeping of one publish call of message s with outcome r
Observe(s, r) ==
    /\ resps' = IF publish(s, r).posted
                THEN [resps EXCEPT ![s.id] = @ \cup {r}]
                ELSE resps
    /\ okCount' = IF publish(s, r).posted /\ r = StatusOK
                  THEN [okCount EXCEPT ![s.id] = Min(@ + 1, 2)]
                  ELSE okCount
    /\ postAfterFinal' =
          IF publish(s, r).posted /\ resps[s.id] \cap ({StatusOK} \cup Permanent) # {}
          THEN [postAfterFinal EXCEPT ![s.id] = TRUE]
          ELSE postAfterFinal
    /\ published' = [published EXCEPT ![s.id] =
                        IF publish(s, r).ok THEN "true" ELSE "false"]
    /\ lastResp' = IF publish(s, r).posted
                   THEN [lastResp EXCEPT ![s.id] = {r}]
                   ELSE lastResp

\* an event task sends its message on sch (sch <- webhookSubmit{...})
Submit(url) ==
    /\ running
    /\ nextMsg <= MaxMsgs
    /\ Len(sch) < SchCap
    /\ sch' = Append(sch, WebhookSubmit(nextMsg, url))
    /\ msgUrl' = [msgUrl EXCEPT ![nextMsg] = url]
    /\ nextMsg' = nextMsg + 1
    /\ UNCHANGED <<pendingMessages, subPc, sweepI, newPend, healthy, taken,
                   resps, okCount, postAfterFinal, published,
                   lastResp, sweepAttempts,
                   sweepStart>>
    /\ UNCHANGED <<running, stVars, cfgVars, dsVars, dbgVars, rfVars>>

\* variant of AtSelect: sch is received by a task of its own
AtSelectAnywhere(pc) == TRUE

\* the one loop of webhookSubmitter is at its select, where it receives
\* from sch and from the ticker; inside a case it receives from neither
AtSelect(pc) == pc = "select"

\* case s := <-sch
Intake ==
    /\ running
    /\ AtSelect(subPc)
    /\ sch # <<>>
    /\ LET s == Head(sch) IN
       \E r \in RespFor(s) :
          /\ sch' = Tail(sch)
          /\ taken' = taken \cup {s.id}
          /\ pendingMessages' = KeepPending(pendingMessages, s, publish(s, r).ok)
          /\ Observe(s, r)
    /\ UNCHANGED <<subPc, sweepI, newPend, healthy, nextMsg, msgUrl,
                   sweepAttempts, sweepStart>>
    /\ UNCHANGED <<running, stVars, cfgVars, dsVars, dbgVars, rfVars>>

\* case <-tick.C, with a non-empty pending list: the range loop starts.
\* (With an empty list the case does nothing.)
Tick ==
    /\ running
    /\ subPc = "select"
    /\ Len(pendingMessages) > 0
    /\ subPc' = "sweep"
    /\ sweepI' = 1
    /\ newPend' = <<>>
    /\ sweepAttempts' = [m \in MsgIds |-> 0]
    /\ sweepStart' = pendingMessages
    /\ UNCHANGED <<sch, pendingMessages, healthy, nextMsg, msgUrl, taken,
                   resps, okCount, postAfterFinal, published,
                   lastResp>>
    /\ UNCHANGED <<running, stVars, cfgVars, dsVars, dbgVars, rfVars>>

\* one iteration of the range loop; the last one also runs
\* pendingMessages = newPend and goes back to the select
SweepStep ==
    /\ running
    /\ subPc = "sweep"
    /\ LET s == pendingMessages[sweepI] IN
       \E r \in RespFor(s) :
          LET np == KeepPending(newPend, s, publish(s, r).ok) IN
          /\ Observe(s, r)
          /\ sweepAttempts' = [sweepAttempts EXCEPT ![s.id] = Min(@ + 1, 2)]
          /\ IF sweepI = Len(pendingMessages)
             THEN /\ pendingMessages' = np
                  /\ newPend' = <<>>
                  /\ sweepI' = 0
                  /\ subPc' = "select"
             ELSE /\ newPend' = np
                  /\ sweepI' = sweepI + 1
                  /\ UNCHANGED <<pendingMessages, subPc>>
    /\ UNCHANGED <<sch, healthy, nextMsg, msgUrl, taken, sweepStart>>
    /\ UNCHANGED <<running, stVars, cfgVars, dsVars, dbgVars, rfVars>>

\* the webhook recovers: from now on every post returns 200
Recover ==
    /\ running
    /\ ~healthy
    /\ healthy' = TRUE
    /\ UNCHANGED <<sch, pendingMessages, subPc, sweepI, newPend, nextMsg,
                   msgUrl, taken, resps, okCount, postAfterFinal, published,
                   lastResp,
                   sweepAttempts, sweepStart>>
    /\ UNCHANGED <<running, stVars, cfgVars, dsVars, dbgVars, rfVars>>

\* ------------------------------------------------------------------------
\* gerritssh.Client.StreamEvents, called by the loop of main
\* ------------------------------------------------------------------------
EventIds == 1..MaxEvents

\* the error values: "nil" is no error
RunResults == {"nil", "runErr"}
ScanResults == {"nil", "scanErr"}

\* variant of FinalErr: no synthesized error
FinalErrAsIs(e) == e

\* if err == nil { err = &ssh.ExitMissingError{} }; return err
FinalErr(e) == IF e = "nil" THEN "ExitMissing" ELSE e

\* variant of CloseSession: the session is left open
CloseSessionNoop(open) == open

\* sess.Close()
CloseSession(open) == FALSE

\* variant of AfterReturn: a stream error is fatal
AfterReturnFatal(e) == IF e # "nil" THEN "exit" ELSE "sleep"

\* main, once StreamEvents has returned e: log it and time.Sleep
AfterReturn(e) == "sleep"

\* e.Dial(), sess.StdoutPipe(), and the start of the two goroutines
StreamStart(outcome) ==
    /\ running
    /\ mainPc = "dial"
    /\ IF outcome = "ok"
       THEN /\ mainPc' = "select"
            /\ err' = "nil"
            /\ sessOpen' = TRUE
            /\ cmdPc' = "running"
            /\ rdPc' = "scan"
            /\ runCh' = <<>>
            /\ readCh' = <<>>
            /\ runClosed' = FALSE
            /\ readClosed' = FALSE
            /\ cmdRes' = "none"
            /\ rdRes' = "none"
            /\ sessions' = Min(sessions + 1, 2)
            /\ UNCHANGED ret
       ELSE /\ mainPc' = "returned"
            /\ ret' = outcome
            /\ err' = outcome
            /\ UNCHANGED <<sessOpen, cmdPc, rdPc, runCh, readCh, runClosed,
                           readClosed, cmdRes, rdRes, sessions>>
    /\ UNCHANGED <<ctxDone, rdEv, ech, nextEv, skipped, lastRecv>>
    /\ UNCHANGED <<running, dqVars, cfgVars, dsVars, dbgVars, rfVars>>

\* go func() { runCh <- sess.Run("gerrit stream-events") }()
\* the remote command ends, or the session is closed under it
CmdExit(e) ==
    /\ running
    /\ cmdPc = "running"
    /\ ~runClosed
    /\ Len(runCh) < 1
    /\ runCh' = Append(runCh, e)
    /\ cmdRes' = e
    /\ cmdPc' = "done"
    /\ UNCHANGED <<mainPc, ctxDone, sessOpen, rdPc, rdEv, readCh, runClosed,
                   readClosed, err, ret, rdRes, ech, nextEv, skipped,
                   lastRecv, sessions>>
    /\ UNCHANGED <<running, dqVars, cfgVars, dsVars, dbgVars, rfVars>>

\* sos.Scan() returns true with a well-formed record: the reader goes on to
\* ch <- ev
ReaderScanEvent ==
    /\ running
    /\ rdPc = "scan"
    /\ nextEv <= MaxEvents
    /\ rdEv' = nextEv
    /\ nextEv' = nextEv + 1
    /\ rdPc' = "send"
    /\ UNCHANGED <<mainPc, ctxDone, sessOpen, cmdPc, runCh, readCh, runClosed,
                   readClosed, err, ret, cmdRes, rdRes, ech, skipped,
                   lastRecv, sessions>>
    /\ UNCHANGED <<running, dqVars, cfgVars, dsVars, dbgVars, rfVars>>

\* variant of AfterMalformed: the loop is left on a malformed record
AfterMalformedBreak == "done"

\* json.Unmarshal fails: llog.Error and continue, back to sos.Scan()
AfterMalformed == "scan"

\* sos.Scan() returns true with a record json.Unmarshal rejects
ReaderScanMalformed ==
    /\ running
    /\ rdPc = "scan"
    /\ skipped = 0
    /\ skipped' = Min(nextEv, 2)
    /\ rdPc' = AfterMalformed
    /\ UNCHANGED <<mainPc, ctxDone, sessOpen, cmdPc, rdEv, runCh,
                   readCh, runClosed, readClosed, err, ret, cmdRes, rdRes,
                   ech, nextEv, lastRecv, sessions>>
    /\ UNCHANGED <<running, dqVars, cfgVars, dsVars, dbgVars, rfVars>>

\* ch <- ev: blocks while the channel is full
ReaderSend ==
    /\ running
    /\ rdPc = "send"
    /\ Len(ech) < EchCap
    /\ ech' = Append(ech, rdEv)
    /\ rdPc' = "scan"
    /\ UNCHANGED <<mainPc, ctxDone, sessOpen, cmdPc, rdEv, runCh, readCh,
                   runClosed, readClosed, err, ret, cmdRes, rdRes, nextEv,
                   skipped, lastRecv, sessions>>
    /\ UNCHANGED <<running, dqVars, cfgVars, dsVars, dbgVars, rfVars>>

\* sos.Scan() returns false (end of the stream or a read error):
\* readCh <- sos.Err()
ReaderEnd(e) ==
    /\ running
    /\ rdPc = "scan"
    /\ ~readClosed
    /\ Len(readCh) < 1
    /\ readCh' = Append(readCh, e)
    /\ rdRes' = e
    /\ rdPc' = "done"
    /\ UNCHANGED <<mainPc, ctxDone, sessOpen, cmdPc, rdEv, runCh, runClosed,
                   readClosed, err, ret, cmdRes, ech, nextEv, skipped,
                   lastRecv, sessions>>
    /\ UNCHANGED <<running, dqVars, cfgVars, dsVars, dbgVars, rfVars>>

\* variant of ClosedOnCancel: the case of ctx.Done() closes the channels too
ClosedOnCancelAlways(closed) == TRUE

\* case <-ctx.Done(): has no body, a channel stays as it is
ClosedOnCancel(closed) == closed

\* the select of StreamEvents, followed by sess.Close()
Select ==
    /\ running
    /\ mainPc = "select"
    /\ \/ /\ ctxDone
          /\ runClosed' = ClosedOnCancel(runClosed)
          /\ readClosed' = ClosedOnCancel(readClosed)
          /\ UNCHANGED <<err, runCh, readCh>>
       \/ /\ runCh # <<>>
          /\ err' = Head(runCh)
          /\ runCh' = Tail(runCh)
          /\ runClosed' = TRUE
          /\ UNCHANGED <<readCh, readClosed>>
       \/ /\ readCh # <<>>
          /\ err' = Head(readCh)
          /\ readCh' = Tail(readCh)
          /\ readClosed' = TRUE
          /\ UNCHANGED <<runCh, runClosed>>
    /\ sessOpen' = CloseSession(sessOpen)
    /\ mainPc' = "waitRun"
    /\ UNCHANGED <<ctxDone, cmdPc, rdPc, rdEv, ret, cmdRes, rdRes, ech,
                   nextEv, skipped, lastRecv, sessions>>
    /\ UNCHANGED <<running, dqVars, cfgVars, dsVars, dbgVars, rfVars>>

\* variant of CanReceive: the receive never waits
CanReceiveAlways(c, closed) == TRUE

\* <-c returns once c holds a value or is closed
CanReceive(c, closed) == c # <<>> \/ closed

\* <-runCh: a value of the buffer, or the zero value of the closed channel
WaitRun ==
    /\ running
    /\ mainPc = "waitRun"
    /\ CanReceive(runCh, runClosed)
    /\ runCh' = IF runCh # <<>> THEN Tail(runCh) ELSE runCh
    /\ mainPc' = "waitRead"
    /\ UNCHANGED <<ctxDone, sessOpen, cmdPc, rdPc, rdEv, readCh, runClosed,
                   readClosed, err, ret, cmdRes, rdRes, ech, nextEv, skipped,
                   lastRecv, sessions>>
    /\ UNCHANGED <<running, dqVars, cfgVars, dsVars, dbgVars, rfVars>>

\* <-readCh, then the return of StreamEvents
WaitRead ==
    /\ running
    /\ mainPc = "waitRead"
    /\ CanReceive(readCh, readClosed)
    /\ readCh' = IF readCh # <<>> THEN Tail(readCh) ELSE readCh
    /\ ret' = FinalErr(err)
    /\ mainPc' = "returned"
    /\ UNCHANGED <<ctxDone, sessOpen, cmdPc, rdPc, rdEv, runCh, runClosed,
                   readClosed, err, cmdRes, rdRes, ech, nextEv, skipped,
                   lastRecv, sessions>>
    /\ UNCHANGED <<running, dqVars, cfgVars, dsVars, dbgVars, rfVars>>

\* main: if err != nil { llog.Error(...) }; time.Sleep(sshRetryDelay)
MainAfterReturn ==
    /\ running
    /\ mainPc = "returned"
    /\ mainPc' = AfterReturn(ret)
    /\ running' = (AfterReturn(ret) # "exit")
    /\ UNCHANGED <<ctxDone, sessOpen, cmdPc, rdPc, rdEv, runCh, readCh,
                   runClosed, readClosed, err, ret, cmdRes, rdRes, ech,
                   nextEv, skipped, lastRecv, sessions>>
    /\ UNCHANGED <<dqVars, cfgVars, dsVars, dbgVars, rfVars>>

\* the sleep ends and the loop of main calls StreamEvents again
SleepDone ==
    /\ running
    /\ mainPc = "sleep"
    /\ mainPc' = "dial"
    /\ UNCHANGED <<ctxDone, sessOpen, cmdPc, rdPc, rdEv, runCh, readCh,
                   runClosed, readClosed, err, ret, cmdRes, rdRes, ech,
                   nextEv, skipped, lastRecv, sessions>>
    /\ UNCHANGED <<running, dqVars, cfgVars, dsVars, dbgVars, rfVars>>

\* the context is canceled
Cancel ==
    /\ running
    /\ ~ctxDone
    /\ ctxDone' = TRUE
    /\ UNCHANGED <<mainPc, sessOpen, cmdPc, rdPc, rdEv, runCh, readCh,
                   runClosed, readClosed, err, ret, cmdRes, rdRes, ech,
                   nextEv, skipped, lastRecv, sessions>>
    /\ UNCHANGED <<running, dqVars, cfgVars, dsVars, dbgVars, rfVars>>

\* listenForEvents: for e := range ech { go func(e) {...}(e) }
Receive ==
    /\ running
    /\ ech # <<>>
    /\ lastRecv' = Head(ech)
    /\ ech' = Tail(ech)
    /\ UNCHANGED <<mainPc, ctxDone, sessOpen, cmdPc, rdPc, rdEv, runCh,
                   readCh, runClosed, readClosed, err, ret, cmdRes, rdRes,
                   nextEv, skipped, sessions>>
    /\ UNCHANGED <<running, dqVars, cfgVars, dsVars, dbgVars, rfVars>>

StInit ==
    /\ mainPc = "dial"
    /\ ctxDone = FALSE
    /\ sessOpen = FALSE
    /\ cmdPc = "idle"
    /\ rdPc = "idle"
    /\ rdEv = 0
    /\ runCh = <<>>
    /\ readCh = <<>>
    /\ runClosed = FALSE
    /\ readClosed = FALSE
    /\ err = "nil"
    /\ ret = "none"
    /\ cmdRes = "none"
    /\ rdRes = "none"
    /\ ech = <<>>
    /\ nextEv = 1
    /\ skipped = 0
    /\ lastRecv = 0
    /\ sessions = 0

StreamNext ==
    \/ \E outcome \in {"ok", "dialErr", "pipeErr"} : StreamStart(outcome)
    \/ \E e \in RunResults : CmdExit(e)
    \/ ReaderScanEvent
    \/ ReaderScanMalformed
    \/ ReaderSend
    \/ \E e \in ScanResults : ReaderEnd(e)
    \/ Select
    \/ WaitRun
    \/ WaitRead
    \/ MainAfterReturn
    \/ SleepDone
    \/ Cancel
    \/ Receive

DQInit ==
    /\ sch = <<>>
    /\ pendingMessages = <<>>
    /\ subPc = "select"
    /\ sweepI = 0
    /\ newPend = <<>>
    /\ healthy = FALSE
    /\ nextMsg = 1
    /\ msgUrl = [m \in MsgIds |-> ""]
    /\ taken = {}
    /\ resps = [m \in MsgIds |-> {}]
    /\ okCount = [m \in MsgIds |-> 0]
    /\ postAfterFinal = [m \in MsgIds |-> FALSE]
    /\ lastResp = [m \in MsgIds |-> {}]
    /\ published = [m \in MsgIds |-> "none"]
    /\ sweepAttempts = [m \in MsgIds |-> 0]
    /\ sweepStart = <<>>

DeliveryNext ==
    \/ \E url \in WebhookURLs : Submit(url)
    \/ Intake
    \/ Tick
    \/ SweepStep
    \/ Recover

\* ------------------------------------------------------------------------
\* project.LoadConfig
\* ------------------------------------------------------------------------
\* the keys of the plugin section a layer can define (ini tags of Config)
BoolKeys == {"enabled", "ignore-wip-patch-set", "publish-on-patch-set-created"}
PtrKeys == {"publish-on-wip-ready", "publish-on-private-to-public"}
LayerKeys == BoolKeys \cup PtrKeys

\* the field of Config an ini key is mapped to
FieldOf(k) ==
    CASE k = "enabled" -> "Enabled"
      [] k = "ignore-wip-patch-set" -> "IgnoreWipPatchSet"
      [] k = "publish-on-patch-set-created" -> "PublishOnPatchSetCreated"
      [] k = "publish-on-wip-ready" -> "OrigPublishOnWipReady"
      [] k = "publish-on-private-to-public" -> "OrigPublishOnPrivatePublic"

\* a layer: the keys the plugin section of one project.config defines
Layers ==
    UNION {[K -> BOOLEAN] :
              K \in {L \in SUBSET LayerKeys : Cardinality(L) <= MaxDefined}}

\* a *bool: <<>> is nil, <<b>> points to b
Nil == <<>>
Ptr(b) == <<b>>

\* DefaultConfig(), for the fields modelled
DefaultConfig ==
    [Enabled |-> FALSE,
     IgnoreWipPatchSet |-> TRUE,
     PublishOnPatchSetCreated |-> FALSE,
     OrigPublishOnWipReady |-> Nil,
     OrigPublishOnPrivatePublic |-> Nil,
     PublishOnWipReady |-> FALSE,
     PublishOnPrivateToPublic |-> FALSE]

\* var pcfg project.Config: the zero value, for the fields modelled
ZeroConfig ==
    [Enabled |-> FALSE,
     IgnoreWipPatchSet |-> FALSE,
     PublishOnPatchSetCreated |-> FALSE,
     OrigPublishOnWipReady |-> Nil,
     OrigPublishOnPrivatePublic |-> Nil,
     PublishOnWipReady |-> FALSE,
     PublishOnPrivateToPublic |-> FALSE]

\* variant of MapTo: a field an earlier layer has changed is not overwritten
MapToKeepFirst(cfg, layer) ==
    [f \in DOMAIN cfg |->
        IF \E k \in DOMAIN layer : FieldOf(k) = f
        THEN LET k == CHOOSE k \in DOMAIN layer : FieldOf(k) = f IN
             IF cfg[f] # DefaultConfig[f] THEN cfg[f]
             ELSE IF k \in PtrKeys THEN Ptr(layer[k]) ELSE layer[k]
        ELSE cfg[f]]

\* c.Section(...).MapTo(&cfg): every key of the section sets its field, the
\* other fields keep their value
MapTo(cfg, layer) ==
    [f \in DOMAIN cfg |->
        IF \E k \in DOMAIN layer : FieldOf(k) = f
        THEN LET k == CHOOSE k \in DOMAIN layer : FieldOf(k) = f IN
             IF k \in PtrKeys THEN Ptr(layer[k]) ELSE layer[k]
        ELSE cfg[f]]

\* variant of CorrectToggles: the two toggles are left as merged
CorrectTogglesNoFallback(cfg) ==
    [cfg EXCEPT
       !.PublishOnWipReady =
           IF cfg.OrigPublishOnWipReady = Nil
           THEN cfg.PublishOnWipReady
           ELSE cfg.OrigPublishOnWipReady[1],
       !.PublishOnPrivateToPublic =
           IF cfg.OrigPublishOnPrivatePublic = Nil
           THEN cfg.PublishOnPrivateToPublic
           ELSE cfg.OrigPublishOnPrivatePublic[1]]

\* now correct the wip-ready and public-to-private
CorrectToggles(cfg) ==
    [cfg EXCEPT
       !.PublishOnWipReady =
           IF cfg.OrigPublishOnWipReady = Nil
           THEN cfg.PublishOnPatchSetCreated
           ELSE cfg.OrigPublishOnWipReady[1],
       !.PublishOnPrivateToPublic =
           IF cfg.OrigPublishOnPrivatePublic = Nil
           THEN cfg.PublishOnPatchSetCreated
           ELSE cfg.OrigPublishOnPrivatePublic[1]]

\* the project whose layer is loaded at the given step (1 is the first):
\* for i := len(projects) - 1; i >= 0; i--
LayerAt(projects, step) == projects[Len(projects) + 1 - step]

\* a project is named by its distance from the event's project: 1 is the
\* event's project, 2 its parent, and so on
EventProject == 1

\* the call LoadConfig(client, project)
LCStart ==
    /\ running
    /\ lcPc = "idle"
    /\ lcCfg' = DefaultConfig
    /\ lcProject' = EventProject
    /\ lcProjects' = <<EventProject>>
    /\ lcStep' = 0
    /\ lcLayers' = <<>>
    /\ lcPc' = "parents"
    /\ lcCaller' = "waiting"
    /\ UNCHANGED pcfg
    /\ UNCHANGED <<running, dqVars, stVars, dsVars, dbgVars, rfVars>>

\* one round of the loop over client.Projects.GetProjectParent(project):
\* it fails, it returns "" (a root project), or it returns the parent
LCGetParent(outcome) ==
    /\ running
    /\ lcPc = "parents"
    /\ CASE outcome = "err" ->
              /\ lcPc' = "failed"
              /\ UNCHANGED <<lcProject, lcProjects>>
         [] outcome = "root" ->
              /\ lcPc' = "layers"
              /\ UNCHANGED <<lcProject, lcProjects>>
         [] outcome = "parent" ->
              /\ Len(lcProjects) < MaxDepth
              /\ lcProjects' = Append(lcProjects, lcProject + 1)
              /\ lcProject' = lcProject + 1
              /\ UNCHANGED lcPc
    /\ UNCHANGED <<lcStep, lcCfg, lcLayers, lcCaller, pcfg>>
    /\ UNCHANGED <<running, dqVars, stVars, dsVars, dbgVars, rfVars>>

\* one round of the loop over projects: GetBranchContent, ini.Load or MapTo
\* fails
LCLoadLayerFails ==
    /\ running
    /\ lcPc = "layers"
    /\ lcPc' = "failed"
    /\ UNCHANGED <<lcProject, lcProjects, lcStep, lcCfg, lcLayers, lcCaller,
                   pcfg>>
    /\ UNCHANGED <<running, dqVars, stVars, dsVars, dbgVars, rfVars>>

\* one round of the loop over projects: the layer of the project is fetched,
\* parsed and mapped onto cfg; after the last round the two toggles are
\* corrected and cfg is returned
LCLoadLayer(layer) ==
    /\ running
    /\ lcPc = "layers"
    /\ LET p == LayerAt(lcProjects, lcStep + 1)
           merged == MapTo(lcCfg, layer)
       IN /\ lcLayers' = [q \in DOMAIN lcLayers \cup {p} |->
                             IF q = p THEN layer ELSE lcLayers[q]]
          /\ lcStep' = lcStep + 1
          /\ IF lcStep + 1 = Len(lcProjects)
             THEN /\ lcCfg' = CorrectToggles(merged)
                  /\ lcPc' = "done"
             ELSE /\ lcCfg' = merged
                  /\ UNCHANGED lcPc
    /\ UNCHANGED <<lcProject, lcProjects, lcCaller, pcfg>>
    /\ UNCHANGED <<running, dqVars, stVars, dsVars, dbgVars, rfVars>>

\* what the goroutine of listenForEvents does with a failed LoadConfig:
\* nothing, whatever the error
AfterLoadConfigProceeds(failed) == "dispatch"

\* what the goroutine of listenForEvents does after LoadConfig: on an error
\* it logs and returns, otherwise it goes on to events.Handler
AfterLoadConfig(failed) == IF failed THEN "dropped" ELSE "dispatch"

\* LoadConfig returns (cfg, err) and the goroutine assigns both: on every
\* failure path the code returns the cfg it has built so far with the error
LCReturn ==
    /\ running
    /\ lcCaller = "waiting"
    /\ lcPc \in {"done", "failed"}
    /\ pcfg' = lcCfg
    /\ lcCaller' = AfterLoadConfig(lcPc = "failed")
    /\ UNCHANGED <<lcPc, lcProject, lcProjects, lcStep, lcCfg, lcLayers>>
    /\ UNCHANGED <<running, dqVars, stVars, dsVars, dbgVars, rfVars>>

CfgInit ==
    /\ lcPc = "idle"
    /\ lcProject = 0
    /\ lcProjects = <<>>
    /\ lcStep = 0
    /\ lcCfg = DefaultConfig
    /\ lcLayers = <<>>
    /\ lcCaller = "idle"
    /\ pcfg = ZeroConfig

ConfigNext ==
    \/ LCStart
    \/ \E outcome \in {"err", "root", "parent"} : LCGetParent(outcome)
    \/ LCLoadLayerFails
    \/ \E layer \in Layers : LCLoadLayer(layer)
    \/ LCReturn

\* ------------------------------------------------------------------------
\* events: the registry, the global wrapper and the four handlers
\* ------------------------------------------------------------------------

\* project.Config as the handlers read it: the zero value
ZeroProjectConfig ==
    [Enabled |-> FALSE,
     WebhookURL |-> "",
     Channel |-> "",
     IgnoreCommitMessage |-> "",
     IgnoreAuthors |-> "",
     IgnoreUnchangedPatchSet |-> FALSE,
     IgnoreWipPatchSet |-> FALSE,
     IgnorePrivatePatchSet |-> FALSE,
     IgnoreOnlyLabels |-> "",
     PublishOnChangeMerged |-> FALSE,
     PublishOnCommentAdded |-> FALSE,
     PublishOnPatchSetCreated |-> FALSE,
     PublishOnReviewerAdded |-> FALSE,
     PublishPatchSetReviewersAdded |-> FALSE,
     PublishPatchSetCreatedImmediately |-> FALSE]

\* DefaultConfig() as the handlers read it
DefaultProjectConfig ==
    [ZeroProjectConfig EXCEPT
       !.Channel = "general",
       !.IgnoreUnchangedPatchSet = TRUE,
       !.IgnoreWipPatchSet = TRUE,
       !.IgnorePrivatePatchSet = TRUE]

\* a pattern regexp.Compile rejects
Malformed == "["

\* regexp.Compile(reg) succeeds
Compiles(reg) == reg # Malformed

\* r.MatchString(val), for the patterns and the values of the model
MatchString(reg, val) ==
    CASE reg = ".*" -> TRUE
      [] reg = "^bot$" -> val = "bot"
      [] reg = "^Verified$" -> val = "Verified"
      [] reg = "^WIP" -> val = "WIP: try"
      [] OTHER -> FALSE

\* variant of regexMatch: a pattern that does not compile matches nothing
\* and raises no error
regexMatchLenient(reg, val) ==
    IF reg = "" THEN [m |-> FALSE, err |-> FALSE]
    ELSE IF ~Compiles(reg) THEN [m |-> FALSE, err |-> FALSE]
    ELSE [m |-> MatchString(reg, val), err |-> FALSE]

\* regexMatch: (false, nil) for the empty pattern, (false, err) for one that
\* does not compile
regexMatch(reg, val) ==
    IF reg = "" THEN [m |-> FALSE, err |-> FALSE]
    ELSE IF ~Compiles(reg) THEN [m |-> FALSE, err |-> TRUE]
    ELSE [m |-> MatchString(reg, val), err |-> FALSE]

\* what an Ignore returns: (ignore, err)
Ret(ignore, failed) == [ignore |-> ignore, err |-> failed]

\* variant of ChangeMerged.Ignore: the event is never ignored
ChangeMergedIgnoreNever(e, cfg) == Ret(FALSE, FALSE)

\* ChangeMerged.Ignore
ChangeMergedIgnore(e, cfg) == Ret(~cfg.PublishOnChangeMerged, FALSE)

\* the seconds between a patch set and a reviewer-added event up to which
\* the reviewer counts as added with the patch set
Tolerance == 5

\* ReviewerAdded.Ignore
ReviewerAddedIgnore(e, cfg) ==
    IF ~cfg.PublishOnReviewerAdded THEN Ret(TRUE, FALSE)
    ELSE IF /\ ~cfg.PublishPatchSetReviewersAdded
            /\ e.tsCreated - e.psCreated <= Tolerance
         THEN Ret(TRUE, FALSE)
    ELSE Ret(FALSE, FALSE)

\* strings.Contains(comment, "\n\n"), a comment being a sequence of pieces
\* of text and line breaks
ContainsBlankLine(comment) ==
    \E i \in 1..(Len(comment) - 1) :
        comment[i] = "\n" /\ comment[i + 1] = "\n"

\* an approval carries a vote: v.OldValue != ""
Voted(v) == v.oldValue # ""

RECURSIVE ApprovalsLoopAll(_, _, _)
RECURSIVE ApprovalsLoop(_, _, _)

\* variant of ApprovalsLoop: every approval counts as a vote
ApprovalsLoopAll(approvals, voted, reg) ==
    IF approvals = <<>> THEN Ret(voted, FALSE)
    ELSE LET v == Head(approvals)
             r == regexMatch(reg, v.type)
         IN IF r.err THEN Ret(FALSE, TRUE)
            ELSE IF ~r.m THEN Ret(FALSE, FALSE)
            ELSE ApprovalsLoopAll(Tail(approvals), TRUE, reg)

\* the loop of CommentAdded.Ignore over e.Approvals and the return after it
ApprovalsLoop(approvals, voted, reg) ==
    IF approvals = <<>> THEN Ret(voted, FALSE)
    ELSE LET v == Head(approvals) IN
         IF ~Voted(v) THEN ApprovalsLoop(Tail(approvals), voted, reg)
         ELSE LET r == regexMatch(reg, v.type) IN
              IF r.err THEN Ret(FALSE, TRUE)
              ELSE IF ~r.m THEN Ret(FALSE, FALSE)
              ELSE ApprovalsLoop(Tail(approvals), TRUE, reg)

\* variant of SkipsVoteCheck: a blank line in the comment does not count
SkipsVoteCheckNoBlankLine(e) == Len(e.approvals) = 0

\* CommentAdded.Ignore leaves the approvals alone: there are none, or the
\* comment holds more than the line Gerrit writes for a vote
SkipsVoteCheck(e) == Len(e.approvals) = 0 \/ ContainsBlankLine(e.comment)

\* CommentAdded.Ignore
CommentAddedIgnore(e, cfg) ==
    IF ~cfg.PublishOnCommentAdded THEN Ret(TRUE, FALSE)
    ELSE LET a == regexMatch(cfg.IgnoreAuthors, e.author.username) IN
         IF a.err THEN Ret(FALSE, TRUE)
         ELSE IF a.m THEN Ret(TRUE, FALSE)
         ELSE IF SkipsVoteCheck(e) THEN Ret(FALSE, FALSE)
         ELSE ApprovalsLoop(e.approvals, FALSE, cfg.IgnoreOnlyLabels)

\* variant of unchangedPatchSetKind: a kind the switch does not know counts
\* as unchanged
unchangedPatchSetKindDefaultTrue(kind) == kind # "REWORK"

\* unchangedPatchSetKind
unchangedPatchSetKind(kind) ==
    CASE kind \in {"TRIVIAL_REBASE", "MERGE_FIRST_PARENT_UPDATE",
                   "NO_CODE_CHANGE", "NO_CHANGE"} -> TRUE
      [] kind = "REWORK" -> FALSE
      [] OTHER -> FALSE

\* PatchSetCreated.Ignore
PatchSetCreatedIgnore(e, cfg) ==
    IF ~cfg.PublishOnPatchSetCreated THEN Ret(TRUE, FALSE)
    ELSE IF cfg.IgnoreUnchangedPatchSet /\ unchangedPatchSetKind(e.kind)
         THEN Ret(TRUE, FALSE)
    ELSE LET c == regexMatch(cfg.IgnoreCommitMessage, e.commitMsg) IN
         IF c.err \/ c.m THEN Ret(c.m, c.err)
         ELSE LET a == regexMatch(cfg.IgnoreAuthors, e.author.username) IN
              Ret(a.m, a.err)

\* the patterns an Ignore hands to regexMatch on its way to its return
Evaluated(e, cfg) ==
    CASE e.type = "comment-added" ->
           IF ~cfg.PublishOnCommentAdded THEN {}
           ELSE LET a == regexMatch(cfg.IgnoreAuthors, e.author.username) IN
                IF a.err \/ a.m \/ SkipsVoteCheck(e) THEN {"IgnoreAuthors"}
                ELSE IF \E i \in DOMAIN e.approvals : Voted(e.approvals[i])
                     THEN {"IgnoreAuthors", "IgnoreOnlyLabels"}
                     ELSE {"IgnoreAuthors"}
      [] e.type = "patchset-created" ->
           IF \/ ~cfg.PublishOnPatchSetCreated
              \/ cfg.IgnoreUnchangedPatchSet /\ unchangedPatchSetKind(e.kind)
           THEN {}
           ELSE LET c == regexMatch(cfg.IgnoreCommitMessage, e.commitMsg) IN
                IF c.err \/ c.m THEN {"IgnoreCommitMessage"}
                ELSE {"IgnoreCommitMessage", "IgnoreAuthors"}
      [] OTHER -> {}

\* the types register has been called with
handlers ==
    {"change-merged", "comment-added", "patchset-created", "reviewer-added"}

\* Handler: the handler registered for the type of the event, if any
Handler(e) == e.type \in handlers

\* w.EventHandler.Ignore: the Ignore of the handler the wrapper embeds
EventHandlerIgnore(e, cfg) ==
    CASE e.type = "change-merged" -> ChangeMergedIgnore(e, cfg)
      [] e.type = "comment-added" -> CommentAddedIgnore(e, cfg)
      [] e.type = "patchset-created" -> PatchSetCreatedIgnore(e, cfg)
      [] e.type = "reviewer-added" -> ReviewerAddedIgnore(e, cfg)

\* variant of globalWrapperIgnore: the handler's Ignore is asked first and
\* its error returned
globalWrapperIgnoreHandlerFirst(e, cfg) ==
    LET r == EventHandlerIgnore(e, cfg) IN
    IF r.err THEN r
    ELSE IF ~cfg.Enabled THEN Ret(TRUE, FALSE)
    ELSE IF cfg.IgnorePrivatePatchSet /\ e.private THEN Ret(TRUE, FALSE)
    ELSE IF cfg.IgnoreWipPatchSet /\ e.wip THEN Ret(TRUE, FALSE)
    ELSE r

\* variant of globalWrapperIgnore: the three global rules return false
globalWrapperIgnoreFalse(e, cfg) ==
    IF ~cfg.Enabled THEN Ret(FALSE, FALSE)
    ELSE IF cfg.IgnorePrivatePatchSet /\ e.private THEN Ret(FALSE, FALSE)
    ELSE IF cfg.IgnoreWipPatchSet /\ e.wip THEN Ret(FALSE, FALSE)
    ELSE EventHandlerIgnore(e, cfg)

\* globalWrapper.Ignore
globalWrapperIgnore(e, cfg) ==
    IF ~cfg.Enabled THEN Ret(TRUE, FALSE)
    ELSE IF cfg.IgnorePrivatePatchSet /\ e.private THEN Ret(TRUE, FALSE)
    ELSE IF cfg.IgnoreWipPatchSet /\ e.wip THEN Ret(TRUE, FALSE)
    ELSE EventHandlerIgnore(e, cfg)

\* the zero Message
NoMessage ==
    [fallback |-> <<>>, pretext |-> <<>>, text |-> <<>>, fields |-> <<>>,
     channel |-> "", color |-> ""]

\* MessageField
MessageField(title, value, short) ==
    [title |-> title, value |-> value, short |-> short]

\* strings.ToLower, for the addresses of the model
ToLower(email) ==
    CASE email = "Ann@x.org" -> "ann@x.org"
      [] OTHER -> email

\* variant of MentionUser: the address is looked up as it is written
MentionUserAsWritten(dir, email, name) ==
    IF email \in DOMAIN dir
    THEN <<"<@", dir[email], ">">>
    ELSE <<name>>

\* slackState.MentionUser under the snapshot dir: "<@id>" or the name
MentionUser(dir, email, name) ==
    IF ToLower(email) \in DOMAIN dir
    THEN <<"<@", dir[ToLower(email)], ">">>
    ELSE <<name>>

\* DefaultPretext
DefaultPretext(action, e) == <<action, e.project, "patchset">>

\* OwnerField
OwnerField(e, dir) ==
    MessageField("Owner", MentionUser(dir, e.owner.email, e.owner.name), TRUE)

\* ProjectField
ProjectField(e) == MessageField("Project", <<e.project>>, TRUE)

\* the loop of ReviewersField: bots and the owner are left out
RECURSIVE Reviewers(_, _, _)
Reviewers(e, rs, dir) ==
    IF rs = <<>> THEN <<>>
    ELSE LET r == Head(rs) IN
         IF r.email = "" \/ r.name = "" THEN Reviewers(e, Tail(rs), dir)
         ELSE IF r.email = e.owner.email THEN Reviewers(e, Tail(rs), dir)
         ELSE <<MentionUser(dir, r.email, r.name)>>
                  \o Reviewers(e, Tail(rs), dir)

\* strings.Join(reviewers, ", ")
RECURSIVE Join(_)
Join(ss) ==
    IF ss = <<>> THEN <<>>
    ELSE IF Len(ss) = 1 THEN Head(ss)
    ELSE Head(ss) \o <<", ">> \o Join(Tail(ss))

\* ReviewersField
ReviewersField(e, rs, dir) ==
    LET reviewers == Reviewers(e, rs, dir) IN
    MessageField("Reviewers", Join(reviewers), Len(reviewers) < 2)

\* the decimal digits of a natural number, most significant first
RECURSIVE Digits(_)
Digits(n) ==
    LET d == <<"0", "1", "2", "3", "4", "5", "6", "7", "8", "9">> IN
    IF n < 10 THEN <<d[n + 1]>>
    ELSE Digits(n \div 10) \o <<d[(n % 10) + 1]>>

\* fmt.Sprintf("%d", n)
FormatInt(n) == IF n < 0 THEN <<"-">> \o Digits(0 - n) ELSE Digits(n)

\* strings.HasPrefix(s, "-")
HasMinusPrefix(s) == Len(s) > 0 /\ s[1] = "-"

\* variant of DeletionsString: the minus sign is always put in front
DeletionsStringAlways(d) == <<"-">> \o FormatInt(d)

\* dstr of PatchSetCreated.Message: the deletions with a leading minus sign
DeletionsString(d) ==
    LET dstr == FormatInt(d) IN
    IF ~HasMinusPrefix(dstr) THEN <<"-">> \o dstr ELSE dstr

\* the value of the Size field: fmt.Sprintf("+%d, %s", insertions, dstr)
SizeValue(ins, del) ==
    <<"+">> \o FormatInt(ins) \o <<",", " ">> \o DeletionsString(del)

\* what a Message returns: (m, err)
MsgRet(m, failed) == [m |-> m, err |-> failed]

\* ChangeMerged.Message
ChangeMergedMessage(e, cfg, fetch, dir) ==
    MsgRet([NoMessage EXCEPT
              !.fallback = <<e.owner.name, "merged">>,
              !.pretext = DefaultPretext("Merged", e),
              !.fields = <<OwnerField(e, dir), ProjectField(e)>>],
           FALSE)

\* ReviewerAdded.Message
ReviewerAddedMessage(e, cfg, fetch, dir) ==
    MsgRet([NoMessage EXCEPT
              !.fallback = <<e.reviewer.name, "asked to review">>,
              !.pretext = DefaultPretext("Review requested for", e),
              !.fields =
                  <<OwnerField(e, dir),
                    MessageField("Reviewer",
                                 MentionUser(dir, e.reviewer.email,
                                             e.reviewer.name),
                                 TRUE)>>],
           FALSE)

\* CommentAdded.Message: the reviewers are fetched when the author of the
\* comment is the owner of the change; this handler writes the owner's name
CommentAddedMessage(e, cfg, fetch, dir) ==
    LET voted == \E i \in DOMAIN e.approvals : Voted(e.approvals[i])
        action == IF voted THEN "voted on" ELSE "commented on"
        m == [NoMessage EXCEPT
                !.fallback = <<e.author.name, action>>,
                !.pretext = DefaultPretext(action, e),
                !.fields = <<MessageField("Owner", <<e.owner.name>>, TRUE)>>]
    IN IF e.author.email = e.owner.email
       THEN IF fetch.err THEN MsgRet(m, TRUE)
            ELSE MsgRet([m EXCEPT
                           !.fields = Append(m.fields,
                               ReviewersField(e, fetch.rs, <<>>)),
                           !.text = e.comment],
                        FALSE)
       ELSE MsgRet([m EXCEPT !.text = e.comment], FALSE)

\* PatchSetCreated.Message: the reviewers are always fetched
PatchSetCreatedMessage(e, cfg, fetch, dir) ==
    LET action == IF e.psNumber > 1 THEN "Updated" ELSE "Proposed"
        m == [NoMessage EXCEPT
                !.fallback = <<e.uploader.name, action>>,
                !.pretext = DefaultPretext(action, e)]
    IN IF fetch.err THEN MsgRet(m, TRUE)
       ELSE MsgRet([m EXCEPT
                      !.fields =
                          <<ReviewersField(e, fetch.rs, <<>>),
                            MessageField("Size",
                                         SizeValue(e.ins, e.del), TRUE)>>],
                   FALSE)

\* the Message of the event's handler calls Changes.ListReviewers
Fetching(e) ==
    \/ e.type = "patchset-created"
    \/ e.type = "comment-added" /\ e.author.email = e.owner.email

\* w.EventHandler.Message: the Message of the handler the wrapper embeds
EventHandlerMessage(e, cfg, fetch, dir) ==
    CASE e.type = "change-merged" -> ChangeMergedMessage(e, cfg, fetch, dir)
      [] e.type = "comment-added" -> CommentAddedMessage(e, cfg, fetch, dir)
      [] e.type = "patchset-created" ->
             PatchSetCreatedMessage(e, cfg, fetch, dir)
      [] e.type = "reviewer-added" -> ReviewerAddedMessage(e, cfg, fetch, dir)

\* the timestamp a Message carries to the webhook: the Attachment has no
\* field for one, which the receiver reads as none (0)
TimestampOf(m) == IF "ts" \in DOMAIN m THEN m.ts ELSE 0

\* variant of WithDefaults: the channel and the colour are assigned whatever
\* the handler has set
WithDefaultsOverwrites(m, e, cfg) ==
    [m EXCEPT
       !.channel = cfg.Channel,
       !.color = IF e.status \in {"MERGED", "ABANDONED"}
                 THEN "danger" ELSE "good"]

\* the defaults of globalWrapper.Message: the channel of the project and
\* the colour by the status of the change
WithDefaults(m, e, cfg) ==
    [m EXCEPT
       !.channel = IF m.channel = "" THEN cfg.Channel ELSE m.channel,
       !.color = IF m.color = ""
                 THEN IF e.status \in {"MERGED", "ABANDONED"}
                      THEN "danger" ELSE "good"
                 ELSE m.color]

\* variant of globalWrapperMessage: the defaults are applied whatever the
\* handler returned
globalWrapperMessageAlways(e, cfg, fetch, dir) ==
    LET r == EventHandlerMessage(e, cfg, fetch, dir) IN
    MsgRet(WithDefaults(r.m, e, cfg), r.err)

\* globalWrapper.Message
globalWrapperMessage(e, cfg, fetch, dir) ==
    LET r == EventHandlerMessage(e, cfg, fetch, dir) IN
    IF ~r.err THEN MsgRet(WithDefaults(r.m, e, cfg), FALSE)
    ELSE MsgRet(r.m, TRUE)

\* ------------------------------------------------------------------------
\* listenForEvents: the goroutine started for one event
\* ------------------------------------------------------------------------

\* accounts of the model: Username, Name, Email
Ann == [username |-> "ann", name |-> "Ann", email |-> "Ann@x.org"]
Bob == [username |-> "bob", name |-> "Bob", email |-> "bob@x.org"]
Bot == [username |-> "bot", name |-> "Bot", email |-> ""]

\* the creation time of the patch set of the model's events
PatchSetTS == 100

\* gerritssh.Event, for the fields the handlers read
BaseEvent(type) ==
    [type |-> type,
     project |-> "proj",
     private |-> FALSE,
     wip |-> FALSE,
     status |-> "NEW",
     owner |-> Ann,
     author |-> Bob,
     uploader |-> Ann,
     reviewer |-> Bob,
     tsCreated |-> PatchSetTS,
     psCreated |-> PatchSetTS,
     psNumber |-> 1,
     kind |-> "REWORK",
     commitMsg |-> "fix bug",
     comment |-> <<"ok">>,
     approvals |-> <<>>,
     ins |-> 0,
     del |-> 0]

\* Change.Private, Change.WIP and Change.Status as events carry them
ChangeStates ==
    {[private |-> FALSE, wip |-> FALSE, status |-> "NEW"],
     [private |-> TRUE, wip |-> FALSE, status |-> "NEW"],
     [private |-> FALSE, wip |-> TRUE, status |-> "NEW"],
     [private |-> FALSE, wip |-> FALSE, status |-> "MERGED"],
     [private |-> FALSE, wip |-> FALSE, status |-> "ABANDONED"]}

WithState(e, cs) ==
    [e EXCEPT !.private = cs.private, !.wip = cs.wip, !.status = cs.status]

ChangeMergedEvents ==
    {WithState(BaseEvent("change-merged"), cs) : cs \in ChangeStates}

\* creation times of reviewer-added events: before the patch set by more
\* than the tolerance, with it, at the tolerance, past the tolerance
TimeStamps ==
    {PatchSetTS - Tolerance - 1, PatchSetTS, PatchSetTS + Tolerance,
     PatchSetTS + Tolerance + 1}

ReviewerAddedEvents ==
    {[WithState(BaseEvent("reviewer-added"), cs) EXCEPT !.tsCreated = ts] :
        cs \in ChangeStates, ts \in TimeStamps}

\* Approval: a label and the value it had before, "" when it has not changed
Approvals == [type : {"Code-Review", "Verified"}, oldValue : {"", "0"}]

ApprovalLists == UNION {[1..n -> Approvals] : n \in 0..MaxApprovals}

\* a comment as Gerrit writes it for a vote alone, one with a text after a
\* blank line, and one with a single line break
Comments ==
    {<<"Patch Set 2: Verified+1">>,
     <<"Patch Set 2:", "\n", "\n", "nice">>,
     <<"Patch Set 2:", "\n", "nice">>}

CommentAddedEvents ==
    {[BaseEvent("comment-added") EXCEPT
        !.author = a, !.comment = c, !.approvals = ap] :
        a \in {Ann, Bot}, c \in Comments, ap \in ApprovalLists}
    \cup
    {[BaseEvent("comment-added") EXCEPT !.wip = TRUE]}

ChangeKinds ==
    {"REWORK", "TRIVIAL_REBASE", "MERGE_FIRST_PARENT_UPDATE",
     "NO_CODE_CHANGE", "NO_CHANGE", "UNKNOWN_KIND"}

\* SizeInsertions and SizeDeletions as events carry them
Sizes == {<<5, 3>>, <<5, -3>>, <<0, 0>>, <<12, -10>>, <<-2, 104>>}

PatchSetCreatedEvents ==
    {[BaseEvent("patchset-created") EXCEPT
        !.kind = k, !.commitMsg = c, !.author = a] :
        k \in ChangeKinds, c \in {"fix bug", "WIP: try"}, a \in {Ann, Bot}}
    \cup
    {[BaseEvent("patchset-created") EXCEPT
        !.ins = s[1], !.del = s[2], !.psNumber = n] :
        s \in Sizes, n \in {1, 2}}
    \cup
    {[BaseEvent("patchset-created") EXCEPT !.private = TRUE]}

\* events of a type no handler is registered for, one of them of no
\* project, and an event of no project of every type that has a handler
OtherEvents ==
    {BaseEvent("topic-changed"),
     [BaseEvent("ref-updated") EXCEPT !.project = ""],
     [BaseEvent("change-merged") EXCEPT !.project = ""],
     [BaseEvent("comment-added") EXCEPT !.project = ""],
     [BaseEvent("patchset-created") EXCEPT !.project = ""],
     [BaseEvent("reviewer-added") EXCEPT !.project = ""]}

Events ==
    ChangeMergedEvents \cup ReviewerAddedEvents \cup CommentAddedEvents
        \cup PatchSetCreatedEvents \cup OtherEvents

\* the two rules of the wrapper on private and work-in-progress changes
GlobalRules == {<<TRUE, TRUE>>, <<FALSE, FALSE>>}

\* patterns a project.config holds: none, one that does not compile, some
\* that do
Patterns(valid) == {"", Malformed} \cup valid

\* the configurations LoadConfig returns for the projects of the model, by
\* the keys the handler of the event reads; the two rules on private and
\* work-in-progress changes vary for the events that vary in these
Configs(e) ==
    LET rules ==
          {[DefaultProjectConfig EXCEPT
              !.Enabled = en,
              !.WebhookURL = "https://hooks/a",
              !.IgnorePrivatePatchSet = g[1],
              !.IgnoreWipPatchSet = g[2]] :
              en \in BOOLEAN, g \in GlobalRules}
        base ==
          {[DefaultProjectConfig EXCEPT
              !.Enabled = en, !.WebhookURL = "https://hooks/a"] :
              en \in BOOLEAN}
    IN CASE e.type = "change-merged" ->
              {[c EXCEPT !.PublishOnChangeMerged = p, !.WebhookURL = u] :
                  c \in rules, p \in BOOLEAN, u \in WebhookURLs}
         [] e.type = "reviewer-added" ->
              {[c EXCEPT !.PublishOnReviewerAdded = p,
                         !.PublishPatchSetReviewersAdded = q] :
                  c \in rules, p \in BOOLEAN, q \in BOOLEAN}
         [] e.type = "comment-added" ->
              {[c EXCEPT !.PublishOnCommentAdded = p,
                         !.IgnoreAuthors = a,
                         !.IgnoreOnlyLabels = l] :
                  c \in base, p \in BOOLEAN, a \in Patterns({"^bot$"}),
                  l \in Patterns({"^Verified$", ".*"})}
         [] e.type = "patchset-created" ->
              {[c EXCEPT !.PublishOnPatchSetCreated = p,
                         !.IgnoreUnchangedPatchSet = i,
                         !.IgnoreCommitMessage = m,
                         !.IgnoreAuthors = a] :
                  c \in base, p \in BOOLEAN, i \in BOOLEAN,
                  m \in Patterns({"^WIP"}), a \in Patterns({"^bot$"})}
         [] OTHER -> base

\* what Changes.ListReviewers answers
ReviewerLists == {<<>>, <<Ann, Bot, Bob>>}

Fetches ==
    {[err |-> TRUE, rs |-> <<>>]}
        \cup {[err |-> FALSE, rs |-> rs] : rs \in ReviewerLists}

\* what users.list answers, as the map refresh builds from it
Snapshots == {<<>>, [a \in {"ann@x.org"} |-> "U1"]}

\* variant of InitialConfig: the goroutine starts from DefaultConfig()
InitialConfigDefault == DefaultProjectConfig

\* var pcfg project.Config
InitialConfig == ZeroProjectConfig

\* a goroutine of listenForEvents is started for the next event of ech
DArrive(e) ==
    /\ running
    /\ dPc = "idle"
    /\ dCount' = dCount + 1
    /\ dEv' = e
    /\ dCfg' = InitialConfig
    /\ dOutcome' = "running"
    /\ dPc' = "config"
    /\ UNCHANGED <<dIgn, dMsg, dFetch, dSent, dFailed, sapi, emailToID>>
    /\ UNCHANGED <<running, dqVars, stVars, cfgVars, dbgVars, rfVars>>

\* if e.Change.Project != "": LoadConfig, and return on its error
DLoadConfig(failed, cfg) ==
    /\ running
    /\ dPc = "config"
    /\ IF dEv.project = ""
       THEN /\ dPc' = "handler"
            /\ UNCHANGED <<dCfg, dOutcome>>
       ELSE IF failed
       THEN /\ dPc' = "done"
            /\ dOutcome' = "configError"
            /\ UNCHANGED dCfg
       ELSE /\ cfg \in Configs(dEv)
            /\ dCfg' = cfg
            /\ dPc' = "handler"
            /\ UNCHANGED dOutcome
    /\ UNCHANGED <<dEv, dIgn, dMsg, dFetch, dSent, dCount, dFailed, sapi,
                   emailToID>>
    /\ UNCHANGED <<running, dqVars, stVars, cfgVars, dbgVars, rfVars>>

\* variant of AfterIgnore: the goroutine returns on the error of Ignore only
AfterIgnoreErrorOnly(r) == IF r.err THEN "ignoreError" ELSE "message"

\* what the goroutine does with the answer of h.Ignore: if err != nil
\* { return }, if ignore { return }, else it goes on to the message
AfterIgnore(r) ==
    IF r.err THEN "ignoreError"
    ELSE IF r.ignore THEN "ignored"
    ELSE "message"

\* events.Handler and h.Ignore: return when there is no handler, when
\* Ignore fails and when it says to ignore
DIgnore ==
    /\ running
    /\ dPc = "handler"
    /\ IF ~Handler(dEv)
       THEN /\ dPc' = "done"
            /\ dOutcome' = "noHandler"
            /\ UNCHANGED dIgn
       ELSE LET r == globalWrapperIgnore(dEv, dCfg) IN
            /\ dIgn' = r
            /\ IF AfterIgnore(r) = "message"
               THEN dPc' = "message" /\ UNCHANGED dOutcome
               ELSE dPc' = "done" /\ dOutcome' = AfterIgnore(r)
    /\ UNCHANGED <<dEv, dCfg, dMsg, dFetch, dSent, dCount, dFailed, sapi,
                   emailToID>>
    /\ UNCHANGED <<running, dqVars, stVars, cfgVars, dbgVars, rfVars>>

\* state.refreshIfNecessary, whose error is logged only, and h.Message:
\* return on its error. Without a token nothing is refreshed; with one the
\* snapshot is replaced when an hour has passed and users.list answers.
DMessage(fetch, refreshed, snapshot) ==
    /\ running
    /\ dPc = "message"
    /\ IF sapi /\ refreshed
       THEN emailToID' = snapshot
       ELSE UNCHANGED emailToID
    /\ dFetch' = IF ~Fetching(dEv) THEN "none"
                 ELSE IF fetch.err THEN "failed" ELSE "fetched"
    /\ LET r == globalWrapperMessage(dEv, dCfg, fetch, emailToID') IN
       /\ dMsg' = r.m
       /\ IF r.err
          THEN dPc' = "done" /\ dOutcome' = "messageError"
          ELSE dPc' = "send" /\ UNCHANGED dOutcome
    /\ UNCHANGED <<dEv, dCfg, dIgn, dSent, dCount, dFailed, sapi>>
    /\ UNCHANGED <<running, dqVars, stVars, cfgVars, dbgVars, rfVars>>

\* sch <- webhookSubmit{Message: msg, WebhookURL: pcfg.WebhookURL, ...}
DSend ==
    /\ running
    /\ dPc = "send"
    /\ nextMsg <= MaxMsgs
    /\ Len(sch) < SchCap
    /\ sch' = Append(sch, WebhookSubmit(nextMsg, dCfg.WebhookURL))
    /\ msgUrl' = [msgUrl EXCEPT ![nextMsg] = dCfg.WebhookURL]
    /\ nextMsg' = nextMsg + 1
    /\ dSent' = nextMsg
    /\ dPc' = "done"
    /\ dOutcome' = "sent"
    /\ UNCHANGED <<pendingMessages, subPc, sweepI, newPend, healthy, taken,
                   resps, okCount, postAfterFinal, published,
                   lastResp, sweepAttempts,
                   sweepStart>>
    /\ UNCHANGED <<dEv, dCfg, dIgn, dMsg, dFetch, dCount, dFailed, sapi,
                   emailToID>>
    /\ UNCHANGED <<running, stVars, cfgVars, dbgVars, rfVars>>

\* the ways the goroutine of an event ends on a failure
Failures == {"configError", "noHandler", "ignoreError", "messageError"}

\* variant of AfterEvent: an error in the goroutine of an event ends the
\* loop over ech
AfterEventStopsOnError(outcome) ==
    IF outcome \in Failures \ {"noHandler"} THEN "stopped" ELSE "idle"

\* variant of AfterEvent: an event without a handler ends the loop over ech
AfterEventStopsOnUnknown(outcome) ==
    IF outcome = "noHandler" THEN "stopped" ELSE "idle"

\* the loop over ech after the goroutine of an event has ended, however it
\* ended: it takes the next event
AfterEvent(outcome) == "idle"

\* the goroutine has returned: its variables are gone
DReturn ==
    /\ running
    /\ dPc = "done"
    /\ dPc' = AfterEvent(dOutcome)
    /\ dFailed' = dFailed \cup ({dOutcome} \cap Failures)
    /\ dEv' = BaseEvent("")
    /\ dCfg' = ZeroProjectConfig
    /\ dIgn' = Ret(FALSE, FALSE)
    /\ dMsg' = NoMessage
    /\ dFetch' = "none"
    /\ dOutcome' = "none"
    /\ dSent' = 0
    /\ UNCHANGED <<dCount, sapi, emailToID>>
    /\ UNCHANGED <<running, dqVars, stVars, cfgVars, dbgVars, rfVars>>

\* the goroutine of the first event has not started; state.refresh() has
\* run: with a token the snapshot is what users.list answered
DsInit ==
    /\ dPc = "idle"
    /\ dEv = BaseEvent("")
    /\ dCfg = ZeroProjectConfig
    /\ dIgn = Ret(FALSE, FALSE)
    /\ dMsg = NoMessage
    /\ dFetch = "none"
    /\ dOutcome = "none"
    /\ dSent = 0
    /\ dCount = 0
    /\ dFailed = {}
    /\ \/ sapi = FALSE /\ emailToID = <<>>
       \/ sapi = TRUE /\ emailToID = [a \in {"ann@x.org"} |-> "U1"]

\* the goroutine of one event, of any kind
DispatchNext ==
    \/ dCount = 0 /\ \E e \in Events : DArrive(e)
    \/ \E failed \in BOOLEAN, cfg \in Configs(dEv) : DLoadConfig(failed, cfg)
    \/ DIgnore
    \/ \E fetch \in Fetches, refreshed \in BOOLEAN, snapshot \in Snapshots :
           DMessage(fetch, refreshed, snapshot)
    \/ DSend
    \/ DReturn

\* events of a sequence: one without a handler, one whose Ignore fails on a
\* pattern, one whose Message needs the reviewers, one that needs nothing
SeqEvents ==
    {BaseEvent("topic-changed"),
     [BaseEvent("comment-added") EXCEPT
        !.author = Bot,
        !.comment = <<"Patch Set 2: Verified+1">>,
        !.approvals = <<[type |-> "Verified", oldValue |-> "0"]>>],
     BaseEvent("patchset-created"),
     WithState(BaseEvent("change-merged"),
               [private |-> FALSE, wip |-> FALSE, status |-> "MERGED"])}

\* the configurations of a sequence: enabled, the event's notifications on
SeqConfigs(e) ==
    {c \in Configs(e) :
        /\ c.Enabled
        /\ c.WebhookURL # ""
        /\ c.IgnorePrivatePatchSet /\ c.IgnoreWipPatchSet
        /\ e.type = "change-merged" => c.PublishOnChangeMerged
        /\ e.type = "comment-added" =>
              /\ c.PublishOnCommentAdded
              /\ c.IgnoreAuthors = ""
              /\ c.IgnoreOnlyLabels \in {"", Malformed}
        /\ e.type = "patchset-created" =>
              /\ c.PublishOnPatchSetCreated
              /\ c.IgnoreUnchangedPatchSet
              /\ c.IgnoreCommitMessage = ""
              /\ c.IgnoreAuthors = ""}

\* for e := range ech: the goroutines of the events of a sequence, one
\* after the other
SequenceNext ==
    \/ dCount < MaxDispatch /\ \E e \in SeqEvents : DArrive(e)
    \/ \E failed \in BOOLEAN, cfg \in SeqConfigs(dEv) :
           DLoadConfig(failed, cfg)
    \/ DIgnore
    \/ \E fetch \in Fetches, refreshed \in BOOLEAN, snapshot \in Snapshots :
           DMessage(fetch, refreshed, snapshot)
    \/ DSend
    \/ DReturn

\* ------------------------------------------------------------------------
\* debugEvents, started by main as a goroutine of its own
\* ------------------------------------------------------------------------

\* variant of AfterDebug: an error of the debug session ends the process
AfterDebugFatal(e) == IF e # "nil" THEN "exit" ELSE "sleep"

\* the loop of debugEvents, once innerDebug has returned e: llog.Error and
\* time.Sleep(sshRetryDelay)
AfterDebug(e) == "sleep"

\* sshc.Dial(), sess.StdoutPipe(), and the start of the two goroutines
DbgStart(outcome) ==
    /\ running
    /\ dbgPc = "dial"
    /\ IF outcome = "ok"
       THEN /\ dbgPc' = "select"
            /\ dbgErr' = "nil"
            /\ dbgSessOpen' = TRUE
            /\ dbgCmdPc' = "running"
            /\ dbgRdPc' = "scan"
            /\ dbgRunCh' = <<>>
            /\ dbgReadCh' = <<>>
            /\ dbgRunClosed' = FALSE
            /\ dbgReadClosed' = FALSE
            /\ dbgSessions' = Min(dbgSessions + 1, 2)
            /\ UNCHANGED dbgRet
       ELSE /\ dbgPc' = "returned"
            /\ dbgRet' = outcome
            /\ dbgErr' = outcome
            /\ UNCHANGED <<dbgSessOpen, dbgCmdPc, dbgRdPc, dbgRunCh,
                           dbgReadCh, dbgRunClosed, dbgReadClosed,
                           dbgSessions>>
    /\ UNCHANGED dbgLines
    /\ UNCHANGED <<running, dqVars, stVars, cfgVars, dsVars, rfVars>>

\* go func() { runCh <- sess.Run("gerrit stream-events") }()
DbgCmdExit(e) ==
    /\ running
    /\ dbgCmdPc = "running"
    /\ Len(dbgRunCh) < 1
    /\ dbgRunCh' = Append(dbgRunCh, e)
    /\ dbgCmdPc' = "done"
    /\ UNCHANGED <<dbgPc, dbgSessOpen, dbgRdPc, dbgReadCh, dbgRunClosed,
                   dbgReadClosed, dbgErr, dbgRet, dbgLines, dbgSessions>>
    /\ UNCHANGED <<running, dqVars, stVars, cfgVars, dsVars, rfVars>>

\* sos.Scan() returns true: fmt.Fprintf(log, ...), whose error is logged
DbgWrite(ok) ==
    /\ running
    /\ dbgRdPc = "scan"
    /\ dbgLines' = IF ok THEN Min(dbgLines + 1, 2) ELSE dbgLines
    /\ UNCHANGED <<dbgPc, dbgSessOpen, dbgCmdPc, dbgRdPc, dbgRunCh,
                   dbgReadCh, dbgRunClosed, dbgReadClosed, dbgErr, dbgRet,
                   dbgSessions>>
    /\ UNCHANGED <<running, dqVars, stVars, cfgVars, dsVars, rfVars>>

\* sos.Scan() returns false: readCh <- sos.Err()
DbgReaderEnd(e) ==
    /\ running
    /\ dbgRdPc = "scan"
    /\ Len(dbgReadCh) < 1
    /\ dbgReadCh' = Append(dbgReadCh, e)
    /\ dbgRdPc' = "done"
    /\ UNCHANGED <<dbgPc, dbgSessOpen, dbgCmdPc, dbgRunCh, dbgRunClosed,
                   dbgReadClosed, dbgErr, dbgRet, dbgLines, dbgSessions>>
    /\ UNCHANGED <<running, dqVars, stVars, cfgVars, dsVars, rfVars>>

\* the select of innerDebug, which has no case for a context, followed by
\* sess.Close()
DbgSelect ==
    /\ running
    /\ dbgPc = "select"
    /\ \/ /\ dbgRunCh # <<>>
          /\ dbgErr' = Head(dbgRunCh)
          /\ dbgRunCh' = Tail(dbgRunCh)
          /\ dbgRunClosed' = TRUE
          /\ UNCHANGED <<dbgReadCh, dbgReadClosed>>
       \/ /\ dbgReadCh # <<>>
          /\ dbgErr' = Head(dbgReadCh)
          /\ dbgReadCh' = Tail(dbgReadCh)
          /\ dbgReadClosed' = TRUE
          /\ UNCHANGED <<dbgRunCh, dbgRunClosed>>
    /\ dbgSessOpen' = CloseSession(dbgSessOpen)
    /\ dbgPc' = "waitRun"
    /\ UNCHANGED <<dbgCmdPc, dbgRdPc, dbgRet, dbgLines, dbgSessions>>
    /\ UNCHANGED <<running, dqVars, stVars, cfgVars, dsVars, rfVars>>

\* <-runCh
DbgWaitRun ==
    /\ running
    /\ dbgPc = "waitRun"
    /\ dbgRunCh # <<>> \/ dbgRunClosed
    /\ dbgRunCh' = IF dbgRunCh # <<>> THEN Tail(dbgRunCh) ELSE dbgRunCh
    /\ dbgPc' = "waitRead"
    /\ UNCHANGED <<dbgSessOpen, dbgCmdPc, dbgRdPc, dbgReadCh, dbgRunClosed,
                   dbgReadClosed, dbgErr, dbgRet, dbgLines, dbgSessions>>
    /\ UNCHANGED <<running, dqVars, stVars, cfgVars, dsVars, rfVars>>

\* <-readCh, then the return of innerDebug
DbgWaitRead ==
    /\ running
    /\ dbgPc = "waitRead"
    /\ dbgReadCh # <<>> \/ dbgReadClosed
    /\ dbgReadCh' = IF dbgReadCh # <<>> THEN Tail(dbgReadCh) ELSE dbgReadCh
    /\ dbgRet' = FinalErr(dbgErr)
    /\ dbgPc' = "returned"
    /\ UNCHANGED <<dbgSessOpen, dbgCmdPc, dbgRdPc, dbgRunCh, dbgRunClosed,
                   dbgReadClosed, dbgErr, dbgLines, dbgSessions>>
    /\ UNCHANGED <<running, dqVars, stVars, cfgVars, dsVars, rfVars>>

\* if err := innerDebug(); err != nil { llog.Error(...) }; time.Sleep
DbgAfterReturn ==
    /\ running
    /\ dbgPc = "returned"
    /\ dbgPc' = AfterDebug(dbgRet)
    /\ running' = (AfterDebug(dbgRet) # "exit")
    /\ UNCHANGED <<dbgSessOpen, dbgCmdPc, dbgRdPc, dbgRunCh, dbgReadCh,
                   dbgRunClosed, dbgReadClosed, dbgErr, dbgRet, dbgLines,
                   dbgSessions>>
    /\ UNCHANGED <<dqVars, stVars, cfgVars, dsVars, rfVars>>

\* the sleep ends and the for loop calls innerDebug again
DbgSleepDone ==
    /\ running
    /\ dbgPc = "sleep"
    /\ dbgPc' = "dial"
    /\ UNCHANGED <<dbgSessOpen, dbgCmdPc, dbgRdPc, dbgRunCh, dbgReadCh,
                   dbgRunClosed, dbgReadClosed, dbgErr, dbgRet, dbgLines,
                   dbgSessions>>
    /\ UNCHANGED <<running, dqVars, stVars, cfgVars, dsVars, rfVars>>

\* main has started debugEvents: cfg.DebugEvents names a file
DbgInit ==
    /\ dbgPc = "dial"
    /\ dbgSessOpen = FALSE
    /\ dbgCmdPc = "idle"
    /\ dbgRdPc = "idle"
    /\ dbgRunCh = <<>>
    /\ dbgReadCh = <<>>
    /\ dbgRunClosed = FALSE
    /\ dbgReadClosed = FALSE
    /\ dbgErr = "nil"
    /\ dbgRet = "none"
    /\ dbgLines = 0
    /\ dbgSessions = 0

DebugNext ==
    \/ \E outcome \in {"ok", "dialErr", "pipeErr"} : DbgStart(outcome)
    \/ \E e \in RunResults : DbgCmdExit(e)
    \/ \E ok \in BOOLEAN : DbgWrite(ok)
    \/ \E e \in ScanResults : DbgReaderEnd(e)
    \/ DbgSelect
    \/ DbgWaitRun
    \/ DbgWaitRead
    \/ DbgAfterReturn
    \/ DbgSleepDone

\* the debug session beside the goroutine listenForEvents starts for an
\* event
DebugTeeNext ==
    \/ DebugNext
    \/ dCount = 0 /\ \E e \in SeqEvents : DArrive(e)
    \/ \E failed \in BOOLEAN, cfg \in SeqConfigs(dEv) :
           DLoadConfig(failed, cfg)
    \/ DIgnore
    \/ \E fetch \in Fetches, refreshed \in BOOLEAN, snapshot \in Snapshots :
           DMessage(fetch, refreshed, snapshot)
    \/ DSend
    \/ DReturn

\* ------------------------------------------------------------------------
\* slackState, shared without a lock by the goroutines listenForEvents
\* starts, one for each event
\* ------------------------------------------------------------------------
Tasks == 1..MaxTasks

\* time.Hour, with the hour as the unit of the clock
MaxAge == 1

\* variant of Stale: a snapshot of exactly the maximum age is sRefreshed
StaleAtAge(n, r) == n - r >= MaxAge

\* time.Since(s.refreshed) > time.Hour
Stale(n, r) == n - r > MaxAge

\* the maps with some but not all of the entries of m
Partial(m) ==
    {[k \in D |-> m[k]] : D \in (SUBSET DOMAIN m) \ {DOMAIN m}}

\* the goroutines other than t that have assigned s.emailToID and have not
\* yet returned from refresh
Publishing(t) == {u \in Tasks \ {t} : rPc[u] = "stamp"}

\* what a read of s.emailToID by goroutine t can give. The field is read and
\* written without synchronization: a read that races with the assignment in
\* refresh of another goroutine gives the map before it, the map assigned,
\* or the map assigned with the writes that filled it not yet visible.
Observable(t) ==
    IF Publishing(t) # {}
    THEN {emailToID, rPrev} \cup Partial(emailToID)
    ELSE {emailToID}

rfFrame ==
    UNCHANGED <<dPc, dEv, dCfg, dIgn, dMsg, dFetch, dOutcome, dSent, dCount,
                dFailed, sapi>>

\* go func(e gerritssh.Event) {...}(e): the goroutine of an event has got
\* past h.Ignore and calls state.refreshIfNecessary()
RBegin(t) ==
    /\ running
    /\ rPc[t] = "idle"
    /\ rPc' = [rPc EXCEPT ![t] = "check"]
    /\ rErr' = [rErr EXCEPT ![t] = FALSE]
    /\ UNCHANGED <<rLocal, rSeen, rPrev, sRefreshed, now, emailToID>>
    /\ rfFrame
    /\ UNCHANGED <<running, dqVars, stVars, cfgVars, dbgVars>>

\* refreshIfNecessary: nil without sapi, refresh() when the snapshot is
\* stale, nil otherwise
RCheck(t) ==
    /\ running
    /\ rPc[t] = "check"
    /\ rPc' = [rPc EXCEPT ![t] = IF sapi /\ Stale(now, sRefreshed)
                                 THEN "fetch" ELSE "mention"]
    /\ UNCHANGED <<rLocal, rSeen, rErr, rPrev, sRefreshed, now, emailToID>>
    /\ rfFrame
    /\ UNCHANGED <<running, dqVars, stVars, cfgVars, dbgVars>>

\* refresh: s.sapi.GetUsers() and the loop that fills the local map; on an
\* error refresh returns it, and listenForEvents logs it and goes on
RFetch(t, ok, snapshot) ==
    /\ running
    /\ rPc[t] = "fetch"
    /\ IF ok
       THEN /\ rLocal' = [rLocal EXCEPT ![t] = snapshot]
            /\ rPc' = [rPc EXCEPT ![t] = "publish"]
            /\ UNCHANGED rErr
       ELSE /\ rErr' = [rErr EXCEPT ![t] = TRUE]
            /\ rPc' = [rPc EXCEPT ![t] = "mention"]
            /\ UNCHANGED rLocal
    /\ UNCHANGED <<rSeen, rPrev, sRefreshed, now, emailToID>>
    /\ rfFrame
    /\ UNCHANGED <<running, dqVars, stVars, cfgVars, dbgVars>>

\* s.emailToID = emailToID
RPublish(t) ==
    /\ running
    /\ rPc[t] = "publish"
    /\ rPrev' = emailToID
    /\ emailToID' = rLocal[t]
    /\ rLocal' = [rLocal EXCEPT ![t] = <<>>]
    /\ rPc' = [rPc EXCEPT ![t] = "stamp"]
    /\ UNCHANGED <<rSeen, rErr, sRefreshed, now>>
    /\ rfFrame
    /\ UNCHANGED <<running, dqVars, stVars, cfgVars, dbgVars>>

\* s.refreshed = time.Now(); return nil
RStamp(t) ==
    /\ running
    /\ rPc[t] = "stamp"
    /\ sRefreshed' = now
    /\ rPc' = [rPc EXCEPT ![t] = "mention"]
    /\ UNCHANGED <<rLocal, rSeen, rErr, rPrev, now, emailToID>>
    /\ rfFrame
    /\ UNCHANGED <<running, dqVars, stVars, cfgVars, dbgVars>>

\* h.Message: MentionUser reads s.emailToID
RMention(t, seen) ==
    /\ running
    /\ rPc[t] = "mention"
    /\ seen \in Observable(t)
    /\ rSeen' = [rSeen EXCEPT ![t] = <<seen>>]
    /\ rPc' = [rPc EXCEPT ![t] = "send"]
    /\ UNCHANGED <<rLocal, rErr, rPrev, sRefreshed, now, emailToID>>
    /\ rfFrame
    /\ UNCHANGED <<running, dqVars, stVars, cfgVars, dbgVars>>

\* sch <- webhookSubmit{...}, and the goroutine ends
RSend(t) ==
    /\ running
    /\ rPc[t] = "send"
    /\ nextMsg <= MaxMsgs
    /\ Len(sch) < SchCap
    /\ sch' = Append(sch, WebhookSubmit(nextMsg, "https://hooks/a"))
    /\ msgUrl' = [msgUrl EXCEPT ![nextMsg] = "https://hooks/a"]
    /\ nextMsg' = nextMsg + 1
    /\ rPc' = [rPc EXCEPT ![t] = "idle"]
    /\ rSeen' = [rSeen EXCEPT ![t] = <<>>]
    /\ UNCHANGED rErr
    /\ UNCHANGED <<pendingMessages, subPc, sweepI, newPend, healthy, taken,
                   resps, okCount, postAfterFinal, published, lastResp,
                   sweepAttempts, sweepStart>>
    /\ UNCHANGED <<rLocal, rPrev, sRefreshed, now, emailToID>>
    /\ rfFrame
    /\ UNCHANGED <<running, stVars, cfgVars, dbgVars>>

\* an hour passes
RTick ==
    /\ running
    /\ now < MaxNow
    /\ now' = now + 1
    /\ UNCHANGED <<rPc, rLocal, rSeen, rErr, rPrev, sRefreshed, emailToID>>
    /\ rfFrame
    /\ UNCHANGED <<running, dqVars, stVars, cfgVars, dbgVars>>

\* listenForEvents has called state.refresh() before its loop
RfInit ==
    /\ rPc = [t \in Tasks |-> "idle"]
    /\ rLocal = [t \in Tasks |-> <<>>]
    /\ rSeen = [t \in Tasks |-> <<>>]
    /\ rErr = [t \in Tasks |-> FALSE]
    /\ rPrev = <<>>
    /\ sRefreshed = 0
    /\ now = 0

RefreshNext ==
    \/ \E t \in Tasks : RBegin(t)
    \/ \E t \in Tasks : RCheck(t)
    \/ \E t \in Tasks, ok \in BOOLEAN, snapshot \in Snapshots :
           RFetch(t, ok, snapshot)
    \/ \E t \in Tasks : RPublish(t)
    \/ \E t \in Tasks : RStamp(t)
    \/ \E t \in Tasks, seen \in Snapshots : RMention(t, seen)
    \/ \E t \in Tasks : RSend(t)
    \/ RTick

\* ------------------------------------------------------------------------
\* Specifications, one for each part of the program
\* ------------------------------------------------------------------------
Init ==
    /\ DQInit /\ running = TRUE /\ StInit /\ CfgInit /\ DsInit /\ DbgInit
    /\ RfInit

DeliverySpec == Init /\ [][DeliveryNext]_vars

\* the select takes a ready case, the ticker fires every minute and the
\* range loop runs to its end
DeliveryFairSpec ==
    /\ DeliverySpec
    /\ WF_vars(Intake)
    /\ WF_vars(Tick)
    /\ WF_vars(SweepStep)

StreamSpec == Init /\ [][StreamNext]_vars

\* every goroutine that can take a step takes it; once the session is closed
\* sess.Run returns and sos.Scan reaches the end of the stream
StreamFairSpec ==
    /\ StreamSpec
    /\ WF_vars(\E outcome \in {"ok", "dialErr", "pipeErr"} : StreamStart(outcome))
    /\ WF_vars(Select)
    /\ WF_vars(WaitRun)
    /\ WF_vars(WaitRead)
    /\ WF_vars(MainAfterReturn)
    /\ WF_vars(SleepDone)
    /\ WF_vars(Receive)
    /\ WF_vars(ReaderSend)
    /\ WF_vars(~sessOpen /\ \E e \in RunResults : CmdExit(e))
    /\ WF_vars(~sessOpen /\ \E e \in ScanResults : ReaderEnd(e))

ConfigSpec == Init /\ [][ConfigNext]_vars

DispatchSpec == Init /\ [][DispatchNext]_vars

SequenceSpec == Init /\ [][SequenceNext]_vars

DebugSpec == Init /\ [][DebugTeeNext]_vars

RefreshSpec == Init /\ [][RefreshNext]_vars

\* the loop of debugEvents goes on once innerDebug has returned, and its
\* sleep ends
DebugFairSpec ==
    /\ DebugSpec
    /\ WF_vars(DbgAfterReturn)
    /\ WF_vars(DbgSleepDone)

\* ------------------------------------------------------------------------
\* Properties of the delivery queue
\* ------------------------------------------------------------------------
\* the pending list as the submitter holds it: during a sweep, the items the
\* sweep has kept so far followed by the items it has not reached yet
EffPending ==
    IF subPc = "sweep"
    THEN newPend \o SubSeq(pendingMessages, sweepI, Len(pendingMessages))
    ELSE pendingMessages

\* number of occurrences of message m in a list
Occ(list, m) == Cardinality({i \in 1..Len(list) : list[i].id = m})

Final == {StatusOK} \cup Permanent

\* C1: a message whose attempts so far all failed transiently (network
\* error or a status other than 200, 404, 410) is in the pending list, and
\* every sweep attempts every item of the list it started with exactly once:
\* failed attempts never remove a message from the list.
C1_TransientRetried ==
    /\ \A m \in MsgIds :
          (resps[m] # {} /\ resps[m] \subseteq Transient)
             => Occ(EffPending, m) = 1
    /\ subPc = "select" =>
          \A i \in 1..Len(sweepStart) : sweepAttempts[sweepStart[i].id] = 1
    /\ subPc = "sweep" =>
          \A i \in 1..Len(pendingMessages) :
             sweepAttempts[pendingMessages[i].id] = IF i < sweepI THEN 1 ELSE 0

\* a message failed on the intake path and again in a completed sweep, and
\* is still pending
C1_Witness ==
    \E m \in MsgIds :
       /\ subPc = "select"
       /\ resps[m] = Transient
       /\ sweepAttempts[m] = 1
       /\ Occ(pendingMessages, m) = 1

\* C2 as stated: once every post returns 200, every message taken from the
\* intake channel with a non-empty webhook URL is eventually accepted with
\* a 200 response.
C2_EveryTakenAccepted ==
    \A m \in MsgIds :
       [](healthy /\ m \in taken /\ msgUrl[m] # ""
             => <>(StatusOK \in resps[m]))

\* C2 amended: once every post returns 200, every message taken from the
\* intake channel with a non-empty webhook URL that has not received a 404
\* or a 410 is eventually accepted with a 200 response.
C2_TakenAcceptedUnlessGone ==
    \A m \in MsgIds :
       [](healthy /\ m \in taken /\ msgUrl[m] # ""
              /\ resps[m] \cap Permanent = {}
             => <>(StatusOK \in resps[m]))

\* a message that failed transiently was accepted after the webhook
\* recovered
C2_Witness ==
    \E m \in MsgIds :
       /\ healthy
       /\ m \in taken
       /\ resps[m] = Transient \cup {StatusOK}

\* C3: a message that received a 404 or a 410 is not in the pending list
\* and is never posted again.
C3_PermanentDropped ==
    \A m \in MsgIds :
       resps[m] \cap Permanent # {}
          => /\ Occ(EffPending, m) = 0
             /\ ~postAfterFinal[m]

\* a message was dropped on a 404 during a sweep, and a later sweep ran
\* over another message
C3_Witness ==
    \E m, k \in MsgIds :
       /\ subPc = "select"
       /\ resps[m] \cap Transient # {}
       /\ StatusNotFound \in resps[m]
       /\ sweepAttempts[m] = 0
       /\ sweepAttempts[k] = 1

\* C4: a message with an empty webhook URL is never posted, its publish
\* returns true and it is never in the pending list.
C4_EmptyUrlNoPost ==
    \A m \in MsgIds :
       (m < nextMsg /\ msgUrl[m] = "")
          => /\ resps[m] = {}
             /\ Occ(pendingMessages, m) = 0
             /\ Occ(newPend, m) = 0
             /\ (m \in taken => published[m] = "true")

\* a message with an empty URL was taken while the webhook was failing and
\* another message is pending
C4_Witness ==
    \E m \in MsgIds :
       /\ m \in taken
       /\ msgUrl[m] = ""
       /\ ~healthy
       /\ pendingMessages # <<>>

\* C5: once a message has received a 200 it is not in the pending list and
\* is never posted again; no message receives two 200 responses and no
\* message is in the pending list twice.
C5_DeliveredTerminal ==
    \A m \in MsgIds :
       /\ StatusOK \in resps[m]
             => /\ Occ(EffPending, m) = 0
                /\ ~postAfterFinal[m]
                /\ okCount[m] = 1
       /\ okCount[m] <= 1
       /\ Occ(pendingMessages, m) <= 1
       /\ Occ(EffPending, m) <= 1

\* a message was accepted in a sweep, and a later sweep ran over another
\* message without posting it again
C5_Witness ==
    \E m, k \in MsgIds :
       /\ subPc = "select"
       /\ resps[m] \cap Transient # {}
       /\ StatusOK \in resps[m]
       /\ sweepAttempts[m] = 0
       /\ sweepAttempts[k] = 1

\* ------------------------------------------------------------------------
\* Properties of the stream session
\* ------------------------------------------------------------------------
\* C6: whenever StreamEvents has returned, the error it returned is not nil.
C6_NeverReturnsNil ==
    mainPc = "returned" => ret \notin {"nil", "none"}

\* the command ended with no error, the read loop ended with no error, the
\* context was not canceled, and StreamEvents returned the synthesized error
C6_Witness ==
    /\ mainPc = "returned"
    /\ cmdRes = "nil"
    /\ rdRes = "nil"
    /\ ~ctxDone
    /\ ret = "ExitMissing"

\* C7: the process never exits; once StreamEvents has returned, main sleeps
\* and then calls StreamEvents again, every time; and listenForEvents can
\* take an event from the events channel whatever main is doing.
C7_ReconnectForever ==
    /\ [][/\ running'
          /\ mainPc = "returned" => mainPc' \in {"returned", "sleep"}
          /\ mainPc = "sleep" => mainPc' \in {"sleep", "dial"}]_vars
    /\ [](ech # <<>> => ENABLED Receive)
    /\ [](mainPc = "returned" => <>(mainPc = "dial"))

\* a session is running after an earlier StreamEvents call returned an error
C7_Witness ==
    /\ mainPc = "select"
    /\ sessions = 2
    /\ ret \in {"runErr", "scanErr", "ExitMissing"}
    /\ running

\* C8: once the context is canceled, a StreamEvents call in progress
\* eventually returns.
C8_CancelReturns ==
    [](ctxDone /\ mainPc \in {"select", "waitRun", "waitRead"}
          => <>(mainPc = "returned"))

\* the context is canceled and StreamEvents waits for the reader goroutine,
\* which is blocked sending an event on the full events channel
C8_Witness ==
    /\ ctxDone
    /\ mainPc = "waitRead"
    /\ rdPc = "send"
    /\ Len(ech) = EchCap
    /\ readCh = <<>>

\* ------------------------------------------------------------------------
\* Properties of the configuration resolution
\* ------------------------------------------------------------------------
MinOf(S) == CHOOSE x \in S : \A y \in S : x <= y

\* the value of key k in the leaf-most layer fetched so far that defines k,
\* as a pointer: Nil when no layer defines k
LeafMost(k) ==
    LET S == {p \in DOMAIN lcLayers : k \in DOMAIN lcLayers[p]} IN
    IF S = {} THEN Nil ELSE Ptr(lcLayers[MinOf(S)][k])

\* the value a layered boolean key is expected to have
Expected(k) ==
    IF LeafMost(k) = Nil THEN DefaultConfig[FieldOf(k)] ELSE LeafMost(k)[1]

\* C9: while the layers are merged and when LoadConfig returns, every
\* layered boolean field has the value of the leaf-most layer merged so far
\* that defines it, or the DefaultConfig value when no such layer defines it.
C9_LeafMostWins ==
    lcPc \in {"layers", "done"} =>
       \A k \in BoolKeys : lcCfg[FieldOf(k)] = Expected(k)

\* a chain of two layers: the root sets enabled and
\* publish-on-patch-set-created, the leaf sets enabled to the other value,
\* and no layer sets ignore-wip-patch-set
C9_Witness ==
    /\ lcPc = "done"
    /\ Len(lcProjects) = 2
    /\ "enabled" \in DOMAIN lcLayers[2]
    /\ "enabled" \in DOMAIN lcLayers[1]
    /\ lcLayers[2]["enabled"] # lcLayers[1]["enabled"]
    /\ "publish-on-patch-set-created" \in DOMAIN lcLayers[2]
    /\ "publish-on-patch-set-created" \notin DOMAIN lcLayers[1]
    /\ lcCfg.PublishOnPatchSetCreated
    /\ lcCfg.IgnoreWipPatchSet

\* C10: in the configuration LoadConfig returns, publish-on-wip-ready
\* (publish-on-private-to-public) is the value of the leaf-most layer that
\* sets it, and publish-on-patch-set-created of the merged chain when no
\* layer sets it.
C10_ToggleFallback ==
    lcPc = "done" =>
       /\ lcCfg.PublishOnWipReady =
             IF LeafMost("publish-on-wip-ready") = Nil
             THEN Expected("publish-on-patch-set-created")
             ELSE LeafMost("publish-on-wip-ready")[1]
       /\ lcCfg.PublishOnPrivateToPublic =
             IF LeafMost("publish-on-private-to-public") = Nil
             THEN Expected("publish-on-patch-set-created")
             ELSE LeafMost("publish-on-private-to-public")[1]

\* the root sets publish-on-patch-set-created to false and
\* publish-on-private-to-public to true, the leaf sets
\* publish-on-patch-set-created to true and publish-on-private-to-public to
\* false, and no layer sets publish-on-wip-ready
C10_Witness ==
    /\ lcPc = "done"
    /\ Len(lcProjects) = 2
    /\ lcLayers[2] = [k \in {"publish-on-patch-set-created",
                             "publish-on-private-to-public"} |->
                         k = "publish-on-private-to-public"]
    /\ lcLayers[1] = [k \in {"publish-on-patch-set-created",
                             "publish-on-private-to-public"} |->
                         k = "publish-on-patch-set-created"]
    /\ lcCfg.PublishOnWipReady
    /\ ~lcCfg.PublishOnPrivateToPublic

\* ------------------------------------------------------------------------
\* C11: a failed LoadConfig and its caller
\* ------------------------------------------------------------------------

\* some layers, but not all of them, have been mapped onto lcCfg
PartiallyMerged == 0 < lcStep /\ lcStep < Len(lcProjects)

\* C11 as stated: when the parent walk or a layer fails, LoadConfig fails as
\* a whole, the goroutine drops the event instead of dispatching it, and no
\* partially merged configuration is returned to the goroutine
C11_NoPartialReturned ==
    /\ lcPc = "failed" => lcCaller \in {"waiting", "dropped"}
    /\ lcCaller = "dispatch" => lcPc = "done"
    /\ lcCaller = "dropped" => ~PartiallyMerged

\* C11 amended: when the parent walk or a layer fails, LoadConfig fails as a
\* whole and the goroutine drops the event: it goes on to the dispatch only
\* with an error-free result, which holds every layer of the chain; the
\* configuration returned beside the error may be partially merged, and is
\* what the dropped goroutine's pcfg holds, unused
C11_FailedLoadDropsEvent ==
    /\ lcPc = "failed" => lcCaller \in {"waiting", "dropped"}
    /\ lcCaller = "dropped" => lcPc = "failed" /\ pcfg = lcCfg
    /\ lcCaller = "dispatch" =>
          /\ lcPc = "done"
          /\ lcStep = Len(lcProjects)
          /\ DOMAIN lcLayers = {lcProjects[i] : i \in DOMAIN lcProjects}
          /\ pcfg = lcCfg

\* the second layer of a chain of two fails after the first has been mapped
\* and has changed the configuration: the event is dropped, pcfg holding
\* the partial merge
C11_Witness ==
    /\ lcCaller = "dropped"
    /\ Len(lcProjects) = 2
    /\ lcStep = 1
    /\ pcfg # DefaultConfig

\* ------------------------------------------------------------------------
\* the goroutine of an event: what has happened to the event so far
\* ------------------------------------------------------------------------

\* h.Ignore has returned to the goroutine
IgnoreReturned ==
    \/ dPc \in {"message", "send"}
    \/ dOutcome \in {"ignoreError", "ignored", "messageError", "sent"}

\* h.Message has returned to the goroutine
MessageReturned == dPc = "send" \/ dOutcome \in {"messageError", "sent"}

\* one of the wrapper's rules on private and work-in-progress changes
\* applies to the event
GlobalRuleApplies ==
    \/ dCfg.IgnorePrivatePatchSet /\ dEv.private
    \/ dCfg.IgnoreWipPatchSet /\ dEv.wip

\* the event reached the Ignore of its own handler
HandlerAsked == IgnoreReturned /\ dCfg.Enabled /\ ~GlobalRuleApplies

\* the value of the field of dMsg with the given title, <<"none">> without
FieldValue(title) ==
    IF \E i \in DOMAIN dMsg.fields : dMsg.fields[i].title = title
    THEN dMsg.fields[CHOOSE i \in DOMAIN dMsg.fields :
                         dMsg.fields[i].title = title].value
    ELSE <<"none">>

HasField(title) == \E i \in DOMAIN dMsg.fields : dMsg.fields[i].title = title

\* ------------------------------------------------------------------------
\* C12: a disabled project
\* ------------------------------------------------------------------------

C13_MergedNeverIgnored ==
    dEv.type = "change-merged" /\ HandlerAsked =>
        /\ dIgn = Ret(FALSE, FALSE)
        /\ MessageReturned =>
              /\ HasField("Owner")
              /\ FieldValue("Project") = <<dEv.project>>
              /\ dMsg.color = "danger"

\* C13 amended: such an event is ignored by its handler exactly when
\* publish-on-change-merged is off, whatever the other fields of the
\* configuration; when it is not ignored it yields a message with an Owner
\* field and a Project field equal to the project name, coloured "danger"
\* when the status of the change is MERGED or ABANDONED and "good" otherwise
C13_MergedPublished ==
    dEv.type = "change-merged" /\ HandlerAsked =>
        /\ dIgn = Ret(~dCfg.PublishOnChangeMerged, FALSE)
        /\ dCfg.PublishOnChangeMerged => dPc # "done" \/ dOutcome = "sent"
        /\ MessageReturned =>
              /\ HasField("Owner")
              /\ FieldValue("Project") = <<dEv.project>>
              /\ dMsg.color =
                    IF dEv.status \in {"MERGED", "ABANDONED"}
                    THEN "danger" ELSE "good"

\* a merged change of an enabled project has been sent on sch in red
C13_Witness ==
    /\ dEv.type = "change-merged"
    /\ dEv.status = "MERGED"
    /\ dOutcome = "sent"
    /\ dCfg.PublishOnChangeMerged
    /\ dMsg.color = "danger"
    /\ HasField("Owner")
    /\ Len(sch) = 1

\* ------------------------------------------------------------------------
\* C14: reviewer-added
\* ------------------------------------------------------------------------

Abs(n) == IF n < 0 THEN 0 - n ELSE n

\* C14 as stated: with reviewer-added notifications on and the publication
\* of reviewers added with a patch set off, an event created at the second
\* of its patch set is ignored, and one whose creation time differs from
\* the patch set's by more than the tolerance is not; with that publication
\* on the tolerance plays no part
C14_ToleranceWindow ==
    /\ dEv.type = "reviewer-added"
    /\ HandlerAsked
    /\ dCfg.PublishOnReviewerAdded
    => /\ ~dCfg.PublishPatchSetReviewersAdded
          /\ dEv.tsCreated = dEv.psCreated => dIgn = Ret(TRUE, FALSE)
       /\ ~dCfg.PublishPatchSetReviewersAdded
          /\ Abs(dEv.tsCreated - dEv.psCreated) > Tolerance
          => dIgn = Ret(FALSE, FALSE)
       /\ dCfg.PublishPatchSetReviewersAdded => dIgn = Ret(FALSE, FALSE)

\* ------------------------------------------------------------------------
\* C15, C16: comment-added
\* ------------------------------------------------------------------------

\* the approvals of the event that carry a vote
Votes == {i \in DOMAIN dEv.approvals : dEv.approvals[i].oldValue # ""}

\* a comment-added event reached the vote rule of its handler: comment
\* notifications are on and the author does not match ignore-authors
CommentReachedVotes ==
    /\ dEv.type = "comment-added"
    /\ HandlerAsked
    /\ dCfg.PublishOnCommentAdded
    /\ regexMatch(dCfg.IgnoreAuthors, dEv.author.username)
           = [m |-> FALSE, err |-> FALSE]

\* C15: with comment notifications on and an author that does not match
\* ignore-authors, a comment-added event with at least one vote whose
\* comment text holds two consecutive line breaks is not ignored, for every
\* ignore-only-labels pattern, also when every voted label matches it
C15_BlankLineNotIgnored ==
    CommentReachedVotes /\ Votes # {} /\ ContainsBlankLine(dEv.comment) =>
        dIgn = Ret(FALSE, FALSE) /\ dOutcome # "ignored"

\* a vote on Verified with a text after a blank line goes out although
\* ignore-only-labels matches the label
C15_Witness ==
    /\ CommentReachedVotes
    /\ ContainsBlankLine(dEv.comment)
    /\ Votes = DOMAIN dEv.approvals
    /\ Len(dEv.approvals) = 1
    /\ dEv.approvals[1].type = "Verified"
    /\ dCfg.IgnoreOnlyLabels = "^Verified$"
    /\ dOutcome = "sent"

\* C16: a comment-added event that passed the publish flag and the author
\* rule and whose text holds no two consecutive line breaks is ignored by
\* its handler if and only if it carries at least one approval with a vote
\* (a previous value) and the label of every such approval matches
\* ignore-only-labels; with an empty pattern it is never ignored
C16_OnlyIgnoredLabels ==
    CommentReachedVotes /\ ~ContainsBlankLine(dEv.comment) =>
        /\ dIgn.ignore <=>
              /\ Votes # {}
              /\ \A i \in Votes :
                    regexMatch(dCfg.IgnoreOnlyLabels,
                               dEv.approvals[i].type).m
        /\ dCfg.IgnoreOnlyLabels = "" => dIgn = Ret(FALSE, FALSE)

\* the only vote is on Verified, beside an approval of Code-Review that
\* carries no vote: the event is ignored
C16_Witness ==
    /\ CommentReachedVotes
    /\ ~ContainsBlankLine(dEv.comment)
    /\ Len(dEv.approvals) = 2
    /\ dEv.approvals[1] = [type |-> "Code-Review", oldValue |-> ""]
    /\ dEv.approvals[2] = [type |-> "Verified", oldValue |-> "0"]
    /\ dCfg.IgnoreOnlyLabels = "^Verified$"
    /\ dOutcome = "ignored"

\* ------------------------------------------------------------------------
\* C17, C18: patchset-created
\* ------------------------------------------------------------------------

\* C17: with patch-set notifications on and neither the commit-message
\* pattern nor the author pattern matching, a patchset-created event is
\* ignored exactly when ignore-unchanged-patch-set is on and the kind is
\* one of TRIVIAL_REBASE, MERGE_FIRST_PARENT_UPDATE, NO_CODE_CHANGE and
\* NO_CHANGE; REWORK and unknown kinds are not ignored on that basis
C17_UnchangedKinds ==
    /\ dEv.type = "patchset-created"
    /\ HandlerAsked
    /\ dCfg.PublishOnPatchSetCreated
    /\ ~regexMatch(dCfg.IgnoreCommitMessage, dEv.commitMsg).m
    /\ ~regexMatch(dCfg.IgnoreAuthors, dEv.author.username).m
    => dIgn.ignore <=>
          /\ dCfg.IgnoreUnchangedPatchSet
          /\ dEv.kind \in {"TRIVIAL_REBASE", "MERGE_FIRST_PARENT_UPDATE",
                            "NO_CODE_CHANGE", "NO_CHANGE"}

\* a patch set of a kind the switch does not know has been let through
\* with ignore-unchanged-patch-set on
C17_Witness ==
    /\ dEv.type = "patchset-created"
    /\ HandlerAsked
    /\ dCfg.PublishOnPatchSetCreated
    /\ dCfg.IgnoreUnchangedPatchSet
    /\ dEv.kind = "UNKNOWN_KIND"
    /\ dIgn = Ret(FALSE, FALSE)
    /\ dPc = "message"

\* C18: the Size field of a patch-set message reads "+<insertions>,
\* -<|d|>" for deletions d: one minus sign whatever the sign of d, so
\* (5, 3) and (5, -3) both read "+5, -3"
C18_SizeField ==
    dEv.type = "patchset-created" /\ MessageReturned /\ dFetch = "fetched" =>
        /\ HasField("Size")
        /\ FieldValue("Size") =
              <<"+">> \o FormatInt(dEv.ins) \o <<",", " ", "-">>
                  \o Digits(Abs(dEv.del))
        /\ dEv.ins = 5 /\ Abs(dEv.del) = 3 =>
              FieldValue("Size") = <<"+", "5", ",", " ", "-", "3">>

\* a patch set that reports its deletions as -3 has been rendered
C18_Witness ==
    /\ dEv.type = "patchset-created"
    /\ dOutcome = "sent"
    /\ dEv.ins = 5
    /\ dEv.del = -3
    /\ FieldValue("Size") = <<"+", "5", ",", " ", "-", "3">>

\* ------------------------------------------------------------------------
\* C19: patterns
\* ------------------------------------------------------------------------

\* C19: for every pattern an Ignore hands to regexMatch: an empty pattern
\* matches nothing and raises no error, so the event is not ignored on its
\* account; a pattern that does not compile makes Ignore return an error,
\* and the goroutine then returns: no message is rendered or sent on sch
\* and nothing of the event is left to be taken up again
C19_PatternErrors ==
    /\ \A val \in {"ann", "bot", "Verified", "fix bug"} :
          regexMatch("", val) = [m |-> FALSE, err |-> FALSE]
    /\ HandlerAsked =>
          /\ \A f \in Evaluated(dEv, dCfg) : dCfg[f] = Malformed => dIgn.err
          /\ /\ Evaluated(dEv, dCfg) # {}
             /\ \A f \in Evaluated(dEv, dCfg) : dCfg[f] = ""
             => dIgn = Ret(FALSE, FALSE)
    /\ IgnoreReturned /\ dIgn.err =>
          /\ dOutcome = "ignoreError"
          /\ dPc = "done"
          /\ dMsg = NoMessage
          /\ dSent = 0
          /\ Len(sch) < dCount

\* the author passes ignore-authors, and ignore-only-labels, asked for the
\* vote, does not compile: the comment has been dropped
C19_Witness ==
    /\ dEv.type = "comment-added"
    /\ dCfg.IgnoreAuthors = "^bot$"
    /\ dCfg.IgnoreOnlyLabels = Malformed
    /\ "IgnoreOnlyLabels" \in Evaluated(dEv, dCfg)
    /\ dOutcome = "ignoreError"
    /\ sch = <<>>

\* ------------------------------------------------------------------------
\* C20: the list of reviewers
\* ------------------------------------------------------------------------

\* C20: the messages of patchset-created events and of comment-added events
\* written by the owner of the change need the list of reviewers; when the
\* fetch fails the handler returns an error, the wrapper applies none of
\* its defaults, and nothing is sent on sch for the event
C20_FetchFailureDrops ==
    /\ MessageReturned =>
          (dFetch # "none" <=>
              \/ dEv.type = "patchset-created"
              \/ dEv.type = "comment-added"
                    /\ dEv.author.email = dEv.owner.email)
    /\ dFetch = "failed" =>
          /\ dOutcome = "messageError"
          /\ dPc = "done"
          /\ dMsg.channel = ""
          /\ dMsg.color = ""
          /\ dSent = 0
          /\ Len(sch) < dCount

\* the owner has commented on a change and the reviewers could not be
\* fetched
C20_Witness ==
    /\ dEv.type = "comment-added"
    /\ dEv.author = dEv.owner
    /\ dFetch = "failed"
    /\ dOutcome = "messageError"
    /\ dMsg.fallback # <<>>

\* ------------------------------------------------------------------------
\* C21, C22: a sequence of events
\* ------------------------------------------------------------------------

\* how the goroutine of the current event ends, by what the event, its
\* configuration and its fetch of the reviewers are
OwnOutcome ==
    IF ~Handler(dEv) THEN "noHandler"
    ELSE IF globalWrapperIgnore(dEv, dCfg).err THEN "ignoreError"
    ELSE IF globalWrapperIgnore(dEv, dCfg).ignore THEN "ignored"
    ELSE IF dFetch = "failed" THEN "messageError"
    ELSE "sent"

\* C21: a failure in the goroutine of one event (LoadConfig, Ignore,
\* Message, no handler) touches that event only: the loop over ech goes
\* on, every event ends the way its own configuration and inputs decide
\* whatever happened to the events before it, an event that is not ignored
\* and is rendered is sent on sch, and no message sent before is lost
C21_ErrorsStayLocal ==
    /\ dPc # "stopped"
    /\ dPc = "done" /\ dOutcome # "configError" => dOutcome = OwnOutcome
    /\ dOutcome = "sent" =>
          /\ dSent = nextMsg - 1
          /\ sch[Len(sch)] = WebhookSubmit(dSent, dCfg.WebhookURL)
    /\ dOutcome \in Failures => dSent = 0
    /\ Len(sch) = nextMsg - 1
    /\ Len(sch) + Cardinality(dFailed) <= dCount

\* the second event of a sequence has been sent on sch after the first
\* ended on an error
C21_Witness ==
    /\ dCount = 2
    /\ dFailed \cap {"configError", "ignoreError", "messageError"} # {}
    /\ dOutcome = "sent"
    /\ Len(sch) = 1

\* C22: an event of a type without a registered handler makes Handler
\* report that it found none; the goroutine then calls neither Ignore nor
\* Message and sends nothing on sch, and the loop takes the next event
C22_UnknownTypeDropped ==
    /\ dEv.type \notin {"", "change-merged", "comment-added",
                         "patchset-created", "reviewer-added"} =>
          /\ ~Handler(dEv)
          /\ ~IgnoreReturned /\ ~MessageReturned
          /\ dPc \in {"config", "handler", "done"}
          /\ dOutcome \in {"running", "configError", "noHandler"}
          /\ dMsg = NoMessage /\ dFetch = "none" /\ dSent = 0
    /\ dOutcome = "noHandler" => ~Handler(dEv)
    /\ dPc # "stopped"

\* an event without a handler has been dropped and the goroutine of the
\* next event has got as far as its message
C22_Witness ==
    /\ dFailed = {"noHandler"}
    /\ dCount = 2
    /\ sch = <<>>
    /\ dPc = "send"

\* ------------------------------------------------------------------------
\* C23: the defaults of the wrapper
\* ------------------------------------------------------------------------

\* the colour the wrapper picks for the current event
StatusColor == IF dEv.status \in {"MERGED", "ABANDONED"} THEN "danger" ELSE "good"

C24_MentionOrName ==
    /\ ~sapi => emailToID = <<>>
    /\ dPc = "send" /\ dEv.type \in {"change-merged", "reviewer-added"} =>
          /\ HasField("Owner")
          /\ dEv.owner.email = "Ann@x.org"
          /\ FieldValue("Owner") =
                IF "ann@x.org" \in DOMAIN emailToID
                THEN <<"<@", emailToID["ann@x.org"], ">">>
                ELSE <<dEv.owner.name>>
          /\ ~sapi => FieldValue("Owner") = <<dEv.owner.name>>
    /\ dPc = "send" /\ HasField("Reviewer") =>
          /\ "bob@x.org" \notin DOMAIN emailToID
          /\ FieldValue("Reviewer") = <<dEv.reviewer.name>>
    /\ dOutcome = "messageError" => dFetch = "failed"

\* the owner, whose address is written with a capital, is mentioned by the
\* id the snapshot holds under the address in lower case
C24_Witness ==
    /\ dPc = "send"
    /\ sapi
    /\ dEv.owner.email = "Ann@x.org"
    /\ DOMAIN emailToID = {"ann@x.org"}
    /\ FieldValue("Owner") = <<"<@", "U1", ">">>
    /\ dEv.type = "reviewer-added"
    /\ FieldValue("Reviewer") = <<"Bob">>

\* ------------------------------------------------------------------------
\* C25: the error StreamEvents returns
\* ------------------------------------------------------------------------

\* C25 as stated: StreamEvents returns the synthesized ExitMissingError only
\* when neither sess.Run nor the read loop ended with an error; when either
\* of the two sent a non-nil error, in whichever order they sent, the error
\* returned is an explicit one
C25_SynthesizedOnlyWithoutError ==
    mainPc = "returned" /\ ret = "ExitMissing" =>
        cmdRes # "runErr" /\ rdRes # "scanErr"

\* ------------------------------------------------------------------------
\* C26, C27: the sweep and the pending list
\* ------------------------------------------------------------------------

\* the items of list whose last post failed transiently, in the order of
\* list
Survivors(list, last) ==
    LET keep(s) == last[s.id] # {} /\ last[s.id] \subseteq Transient IN
    SelectSeq(list, keep)

\* C26: a sweep goes through the pending list it started with from its
\* first item to its last, calling publish once for the item it is at and
\* for no other; newPend is at every point the sub-sequence of the items
\* gone through whose attempt failed transiently; and the pending list the
\* sweep leaves is that sub-sequence of the whole list, in the list's order
C26_SweepKeepsFailedInOrder ==
    /\ [](subPc = "sweep" =>
            /\ pendingMessages = sweepStart
            /\ sweepI \in 1..Len(pendingMessages)
            /\ \A i \in 1..Len(pendingMessages) :
                  sweepAttempts[pendingMessages[i].id] =
                      IF i < sweepI THEN 1 ELSE 0
            /\ newPend = Survivors(SubSeq(pendingMessages, 1, sweepI - 1),
                                   lastResp))
    /\ [][subPc = "sweep" /\ sweepAttempts' # sweepAttempts =>
            /\ sweepAttempts' =
                  [sweepAttempts EXCEPT ![pendingMessages[sweepI].id] = 1]
            /\ lastResp'[pendingMessages[sweepI].id] # {}
            /\ \/ subPc' = "sweep" /\ sweepI' = sweepI + 1
               \/ /\ subPc' = "select"
                  /\ sweepI = Len(sweepStart)
                  /\ pendingMessages' = Survivors(sweepStart, lastResp')
                  /\ \A i \in 1..Len(sweepStart) :
                        sweepAttempts'[sweepStart[i].id] = 1]_vars

\* a sweep over three pending messages has ended: the second was dropped,
\* the first and the third failed again and are pending in that order
C26_Witness ==
    /\ subPc = "select"
    /\ Len(sweepStart) = 3
    /\ pendingMessages = <<sweepStart[1], sweepStart[3]>>
    /\ lastResp[sweepStart[1].id] \subseteq Transient
    /\ lastResp[sweepStart[2].id] \subseteq Final
    /\ \A i \in 1..3 : sweepAttempts[sweepStart[i].id] = 1

\* C27: the pending list changes in two ways only, both steps of the one
\* loop of webhookSubmitter: the intake case appends the message it took
\* from sch, whose post failed transiently, behind every pending item, and
\* the end of a sweep assigns newPend; while a sweep is in progress the
\* intake case cannot run, messages wait on sch, and the list is the one the
\* sweep started with; a message whose every post failed transiently is
\* pending exactly once
C27_SingleOwner ==
    /\ [](subPc = "sweep" => ~ENABLED Intake /\ pendingMessages = sweepStart)
    /\ [](\A m \in MsgIds :
             m \in taken /\ resps[m] # {} /\ resps[m] \subseteq Transient
                => Occ(EffPending, m) = 1)
    /\ [][pendingMessages' # pendingMessages =>
            \/ /\ subPc = "select" /\ subPc' = "select"
               /\ sch # <<>>
               /\ sch' = Tail(sch)
               /\ pendingMessages' = Append(pendingMessages, Head(sch))
               /\ lastResp'[Head(sch).id] # {}
               /\ lastResp'[Head(sch).id] \subseteq Transient
            \/ /\ subPc = "sweep" /\ subPc' = "select"
               /\ Len(pendingMessages') <= Len(pendingMessages)]_vars

\* a sweep ran over one pending message, which failed again; a message taken
\* from sch after the sweep failed too and is pending behind the one the
\* sweep kept
C27_Witness ==
    /\ subPc = "select"
    /\ Len(sweepStart) = 1
    /\ Len(pendingMessages) = 2
    /\ pendingMessages[1] = sweepStart[1]
    /\ sweepAttempts[pendingMessages[1].id] = 1
    /\ sweepAttempts[pendingMessages[2].id] = 0
    /\ lastResp[pendingMessages[2].id] # {}
    /\ lastResp[pendingMessages[2].id] \subseteq Transient

\* ------------------------------------------------------------------------
\* C28: a malformed record
\* ------------------------------------------------------------------------

\* C28: the step that skips a malformed record changes nothing but the
\* reader's position in the stream: the reader is back at sos.Scan(), the
\* session stays open, nothing is sent on readCh and StreamEvents stays
\* where it is; after it the reader can scan the next record; and every
\* well-formed record scanned is received, waits on the events channel or
\* is being sent, in stream order and without a gap
C28_MalformedSkipped ==
    /\ [][skipped' # skipped =>
            /\ rdPc = "scan" /\ rdPc' = "scan"
            /\ UNCHANGED <<sessOpen, mainPc, readCh, readClosed, rdRes, err,
                           ret, ech, nextEv, lastRecv>>]_vars
    /\ [](skipped # 0 /\ rdPc = "scan" /\ nextEv <= MaxEvents
            => ENABLED ReaderScanEvent)
    /\ [](/\ \A i \in 1..Len(ech) : ech[i] = lastRecv + i
          /\ rdPc = "send" => rdEv = lastRecv + Len(ech) + 1
          /\ nextEv - 1 =
                lastRecv + Len(ech) + (IF rdPc = "send" THEN 1 ELSE 0))

\* the first record of the stream was malformed; the two records after it
\* were received, and a third waits on the events channel, all in the
\* session of the malformed one
C28_Witness ==
    /\ skipped = 1
    /\ sessions = 1
    /\ sessOpen
    /\ lastRecv = 2
    /\ ech = <<3>>

\* ------------------------------------------------------------------------
\* C29: the debug session
\* ------------------------------------------------------------------------

\* the state of the process and of its primary consumer
primaryVars == <<running, dqVars, stVars, cfgVars, dsVars>>

\* C29: a step of debugEvents changes nothing of the process, the primary
\* stream session, the goroutines of listenForEvents or the delivery queue,
\* and a step of those changes nothing of debugEvents; the process never
\* exits; whatever state the debug session is in, failed or ended, the
\* goroutine of an event can take its next step; and every time innerDebug
\* has returned, with whatever error, debugEvents sleeps and calls it again
C29_DebugIndependent ==
    /\ [][/\ dbgVars' # dbgVars => UNCHANGED primaryVars
          /\ primaryVars' # primaryVars => UNCHANGED dbgVars
          /\ running'
          /\ dbgPc = "returned" => dbgPc' \in {"returned", "sleep"}
          /\ dbgPc = "sleep" => dbgPc' \in {"sleep", "dial"}]_vars
    /\ [](/\ running /\ dbgPc # "exit"
          /\ dPc = "idle" /\ dCount = 0
                => ENABLED (\E e \in SeqEvents : DArrive(e))
          /\ dPc = "handler" => ENABLED DIgnore
          /\ dPc = "send" /\ nextMsg <= MaxMsgs /\ Len(sch) < SchCap
                => ENABLED DSend
          /\ dPc = "done" => ENABLED DReturn)
    /\ [](dbgPc = "returned" => <>(dbgPc = "dial"))

\* a second debug session is open after the first ended with an error, and
\* meanwhile the message of an event was sent on sch
C29_Witness ==
    /\ dbgSessions = 2
    /\ dbgPc = "select"
    /\ dbgRet \in {"runErr", "scanErr", "ExitMissing"}
    /\ dbgLines > 0
    /\ running
    /\ dOutcome = "sent"
    /\ Len(sch) = 1

\* ------------------------------------------------------------------------
\* C30: the global rules come first
\* ------------------------------------------------------------------------

Refreshing == {t \in Tasks : rPc[t] \in {"fetch", "publish", "stamp"}}

\* C31 as stated: whatever the interleaving of the goroutines that call
\* refreshIfNecessary, at most one of them is inside refresh() at a time
C31_OneRefreshAtATime == Cardinality(Refreshing) <= 1

\* C32 as stated: the map a MentionUser call reads from s.emailToID is the
\* complete snapshot that was there before the last assignment of refresh
\* or the complete one assigned, never a map with only some of the entries
C32_SnapshotAtomic ==
    [][\A t \in Tasks :
          rPc[t] = "mention" /\ rPc'[t] = "send"
             => rSeen'[t] \in {<<rPrev>>, <<emailToID>>}]_vars

\* C33: a goroutine that calls refreshIfNecessary goes into refresh only
\* with a token and when, at the call, more than MaxAge has passed since
\* s.refreshed, which only a refresh that succeeded sets; a refresh whose
\* GetUsers fails returns the error and changes neither s.emailToID nor
\* s.refreshed, and the goroutine still renders its message and sends it on
\* sch; while one goroutine waits in GetUsers every other goroutine can
\* take its next step
C33_RefreshWhenStale ==
    /\ [][\A t \in Tasks :
            /\ rPc[t] = "check" /\ rPc'[t] = "fetch"
                  => sapi /\ now - sRefreshed > MaxAge
            /\ rPc[t] = "check" /\ rPc'[t] = "mention"
                  => ~sapi \/ now - sRefreshed <= MaxAge
            /\ rPc[t] = "fetch" /\ rPc'[t] = "mention"
                  => rErr'[t] /\ UNCHANGED <<emailToID, sRefreshed>>
            /\ rPc[t] = "stamp" /\ rPc'[t] # "stamp"
                  => ~rErr[t] /\ sRefreshed' = now]_vars
    /\ [][sRefreshed' # sRefreshed \/ emailToID' # emailToID
            => \E t \in Tasks : rPc[t] \in {"publish", "stamp"} /\ ~rErr[t]]_vars
    /\ [](\A t \in Tasks :
            /\ rPc[t] = "mention" => ENABLED RMention(t, emailToID)
            /\ rPc[t] = "send" /\ nextMsg <= MaxMsgs /\ Len(sch) < SchCap
                  => ENABLED RSend(t)
            /\ rPc[t] = "fetch" =>
                  \A u \in Tasks \ {t} :
                     /\ rPc[u] = "idle" => ENABLED RBegin(u)
                     /\ rPc[u] = "check" => ENABLED RCheck(u)
                     /\ rPc[u] = "mention" => ENABLED RMention(u, emailToID)
                     /\ rPc[u] = "send" /\ nextMsg <= MaxMsgs
                           => ENABLED RSend(u))

\* the refresh of one goroutine failed when the snapshot was two hours old:
\* the snapshot and its time are as they were, the message of that
\* goroutine was sent on sch, and another goroutine is still waiting in
\* GetUsers
C33_Witness ==
    \E t, u \in Tasks :
       /\ rPc[t] = "idle" /\ rErr[t]
       /\ rPc[u] = "fetch"
       /\ Len(sch) = 1
       /\ sRefreshed = 0 /\ now = 2
       /\ rPrev = <<>>

\* C34: in StreamEvents a goroutine that has yet to send never has its
\* channel closed, a channel is closed only by the select, in the case that
\* has just received the value of that channel, at most one channel is
\* closed in a session, and each goroutine sends once, as its last step, on
\* its own empty and open channel; so there is no send on a closed channel
\* and no second close, whatever ends first
C34_NoSendOnClosedNoDoubleClose ==
    /\ [](/\ cmdPc = "running" => ~runClosed /\ runCh = <<>>
          /\ rdPc \in {"scan", "send"} => ~readClosed /\ readCh = <<>>
          /\ ~(runClosed /\ readClosed)
          /\ Len(runCh) <= 1 /\ Len(readCh) <= 1)
    /\ [][/\ runCh' # runCh /\ runCh' # <<>>
               => /\ cmdPc = "running" /\ cmdPc' = "done"
                  /\ cmdRes = "none" /\ runCh' = <<cmdRes'>>
                  /\ ~runClosed /\ readCh' = readCh
          /\ readCh' # readCh /\ readCh' # <<>>
               => /\ rdPc = "scan" /\ rdPc' = "done"
                  /\ rdRes = "none" /\ readCh' = <<rdRes'>>
                  /\ ~readClosed /\ runCh' = runCh
          /\ ~runClosed /\ runClosed'
               => /\ mainPc = "select" /\ mainPc' = "waitRun"
                  /\ cmdPc = "done" /\ runCh = <<cmdRes>> /\ runCh' = <<>>
                  /\ err' = cmdRes
          /\ ~readClosed /\ readClosed'
               => /\ mainPc = "select" /\ mainPc' = "waitRun"
                  /\ rdPc = "done" /\ readCh = <<rdRes>> /\ readCh' = <<>>
                  /\ err' = rdRes]_vars

\* the context is canceled after both goroutines have sent, and the select
\* has taken the case of readCh: readCh is closed, runCh still holds its
\* value
C34_Witness ==
    /\ mainPc = "waitRun"
    /\ ctxDone
    /\ readClosed /\ ~runClosed
    /\ cmdPc = "done" /\ rdPc = "done"
    /\ runCh = <<cmdRes>> /\ readCh = <<>>

\* C35: StreamEvents has returned only when both of its goroutines have
\* finished, so while main logs, sleeps and dials again no reader of an
\* earlier session is left: a session starts with both goroutines of the
\* one before it ended, and an event goes on the events channel only from
\* the reader of the session that has not returned yet
C35_ReturnsAfterBothFinished ==
    /\ [](mainPc \in {"dial", "returned", "sleep"}
            => cmdPc \in {"idle", "done"} /\ rdPc \in {"idle", "done"})
    /\ [](mainPc = "returned" /\ ret \notin {"dialErr", "pipeErr"}
            => cmdRes # "none" /\ rdRes # "none"
                  /\ runCh = <<>> /\ readCh = <<>>)
    /\ [][/\ mainPc = "dial" /\ mainPc' = "select"
               => cmdPc \in {"idle", "done"} /\ rdPc \in {"idle", "done"}
          /\ ech' # ech /\ Len(ech') > Len(ech)
               => /\ rdPc = "send" /\ rdPc' = "scan"
                  /\ mainPc \in {"select", "waitRun", "waitRead"}
                  /\ ech' = Append(ech, rdEv)]_vars

\* the second session has started and its reader sends an event while an
\* event of the first session is still on the events channel
C35_Witness ==
    /\ sessions = 2
    /\ mainPc = "select"
    /\ rdPc = "send"
    /\ ech # <<>>
    /\ rdEv > Head(ech)

\* C36: the goroutine of an event runs once and sends on sch at most once;
\* it sends only after the wrapper's Ignore has answered (false, nil) and
\* Message has returned no error, and what it sends carries the WebhookURL
\* of the configuration LoadConfig returned for the project of the event
C36_AtMostOneSubmission ==
    /\ [](/\ nextMsg - 1 <= dCount /\ Len(sch) <= dCount
          /\ dPc = "send" \/ dSent # 0 =>
                /\ Handler(dEv)
                /\ dIgn = Ret(FALSE, FALSE)
                /\ dIgn = globalWrapperIgnore(dEv, dCfg)
                /\ dFetch # "failed"
                /\ dMsg # NoMessage
                /\ dEv.project # "" /\ dCfg \in Configs(dEv)
          /\ dSent # 0 =>
                /\ dPc = "done" /\ dOutcome = "sent"
                /\ dSent = nextMsg - 1
                /\ sch[Len(sch)] = WebhookSubmit(dSent, dCfg.WebhookURL)
                /\ msgUrl[dSent] = dCfg.WebhookURL)
    /\ [][/\ sch' # sch =>
                /\ dPc = "send" /\ dPc' = "done"
                /\ dSent = 0 /\ dSent' = nextMsg
                /\ sch' = Append(sch, WebhookSubmit(nextMsg, dCfg.WebhookURL))
          /\ dCount' # dCount =>
                dPc = "idle" /\ dPc' = "config" /\ dCount' = dCount + 1]_vars

\* a change-merged event of a configuration without a webhook URL has been
\* sent on sch, with that empty URL
C36_Witness ==
    /\ dPc = "done"
    /\ dSent = 1
    /\ dEv.type = "change-merged"
    /\ dCfg.WebhookURL = ""
    /\ sch = <<WebhookSubmit(1, "")>>

\* C37: the goroutine of an event whose change has no project calls
\* neither LoadConfig nor DefaultConfig, its configuration is the zero
\* Config, which is not enabled; the wrapper of every handler answers
\* (true, nil) to it, so the goroutine returns at the Ignore (or before it,
\* without a handler) and sends nothing on sch
C37_NoProjectIgnored ==
    /\ [](/\ \A e \in Events :
                Handler(e) /\ e.project = ""
                   => globalWrapperIgnore(e, ZeroProjectConfig)
                         = Ret(TRUE, FALSE)
          /\ dPc # "idle" /\ dEv.project = "" =>
                /\ dCfg = ZeroProjectConfig
                /\ dCfg # DefaultProjectConfig
                /\ ~dCfg.Enabled
                /\ dPc \in {"config", "handler", "done"}
                /\ dOutcome \in {"running", "noHandler", "ignored"}
                /\ dPc = "done" /\ Handler(dEv) =>
                      dIgn = Ret(TRUE, FALSE) /\ dOutcome = "ignored"
                /\ dPc = "done" /\ ~Handler(dEv) => dOutcome = "noHandler"
                /\ dSent = 0 /\ dMsg = NoMessage /\ sch = <<>>)
    /\ [][dPc # "idle" /\ dEv.project = "" => sch' = sch]_vars

\* a patchset-created event without a project has been ignored
C37_Witness ==
    /\ dPc = "done"
    /\ dEv.type = "patchset-created"
    /\ dEv.project = ""
    /\ dCfg = ZeroProjectConfig
    /\ dIgn = Ret(TRUE, FALSE)
    /\ dOutcome = "ignored"
    /\ sch = <<>>

====
